---- MODULE Spec2Model ----
(***************************************************************************)
(* A model of the mdlayher/tftp server: the per-client transfer engine     *)
(* (response / bufferedSocketResponseWriter) with the network and the      *)
(* client it talks to, the request and ACK/ERROR codecs, the netascii      *)
(* encoders and decoders, and the dispatcher (Server.Serve, conn.serve and *)
(* rotftpd's Handler).                                                     *)
(*                                                                         *)
(* Spec and SpecWrap follow one session in detail: the handler goroutine   *)
(* that owns the response calls Write, Flush and Close; writeOneBlock runs *)
(* inside Write and Flush and blocks at its two I/O points (WriteTo and    *)
(* ReadFrom).  SpecChannel runs the same engine against a client that      *)
(* accepts blocks in order over a channel that loses, duplicates and       *)
(* reorders.  SpecCodec applies the pure functions to byte slices.         *)
(* SpecServer runs the dispatch loop and the sessions it starts.  Bytes    *)
(* are integers 0..255 and buffers are sequences of bytes.                 *)
(***************************************************************************)
EXTENDS Integers, Sequences, FiniteSets, TLC

(***************************************************************************)
(* Program constants.                                                      *)
(***************************************************************************)
blockSize == 512

\* The width of response.block (uint16).
BlockModulus == 65536

OpcodeRead == 1
OpcodeWrite == 2
opcodeDATA == 3
opcodeACK == 4
OpcodeError == 5

CR == 13
LF == 10
NUL == 0

(***************************************************************************)
(* Bounds of the model.                                                    *)
(***************************************************************************)
\* Write calls the handler makes in one session.
MaxWrites == 2
\* Flush calls the handler makes in one session.
MaxFlushes == 1
\* Datagrams the session's endpoint sends in one session.
MaxSent == 5
\* DATA packets in flight to the client at one time.
MaxInFlight == 2
\* Datagrams queued towards the session's endpoint at one time.
MaxQueue == 2
\* Disturbances in one session: datagrams lost, ACKs the client repeats on
\* its own timeout, datagrams that reach the endpoint from anyone but the
\* client, and transport errors other than timeouts.
MaxFaults == 1
\* Reads that time out which the history counts (the reads themselves are
\* not bounded).
MaxCounted == 1
\* Datagrams the unreliable channel loses, duplicates or reorders in one
\* session.
MaxDisturbances == 2
\* The longest byte slice of those drawn in full for the codec.
MaxBytes == 5
\* Datagrams the dispatch loop receives.
MaxConns == 2
\* Reads that time out which one dispatched session counts.
MaxTimeouts == 1
\* Full blocks of the file the handler serves; the transfer has one more,
\* shorter, DATA packet.
FullBlocks == 1

Min(a, b) == IF a < b THEN a ELSE b

(***************************************************************************)
(* Byte helpers.                                                           *)
(***************************************************************************)
\* binary.BigEndian.PutUint16
PutUint16(v) == <<v \div 256, v % 256>>

\* binary.BigEndian.Uint16(b[i:i+2]), i counted from 1
Uint16(b, i) == b[i] * 256 + b[i + 1]

\* bytes.Buffer.Next(n): the first n bytes of the buffer, or all of them
BufNext(b, n) == SubSeq(b, 1, Min(n, Len(b)))

\* what bytes.Buffer.Next(n) leaves in the buffer
BufRest(b, n) == SubSeq(b, Min(n, Len(b)) + 1, Len(b))

(***************************************************************************)
(* Errors.  Every error value is a record of the same shape so that error  *)
(* values can be compared; type "nil" is the nil error.                    *)
(***************************************************************************)
Err(t) == [type |-> t, code |-> 0, msg |-> <<>>]
nil == Err("nil")
errInvalidACKPacket == Err("errInvalidACKPacket")
errInvalidERRORPacket == Err("errInvalidERRORPacket")
ErrShortWrite == Err("io.ErrShortWrite")
\* a *net.OpError whose Timeout() is false
errOpError == Err("net.OpError")
\* an error that is not a *net.OpError
errOther == Err("error")
\* the *net.OpError of an operation on a closed connection
errClosed == Err("net.OpError: use of closed network connection")
ErrorPacket(c, m) == [type |-> "ErrorPacket", code |-> c, msg |-> m]

(***************************************************************************)
(* The ACK/ERROR codec.  The result is the pair the Go function returns:   *)
(* ack is TRUE when the *ackPacket is non-nil (then Block is its block),   *)
(* err is the error value.                                                 *)
(***************************************************************************)
AckResult(n) == [ack |-> TRUE, Block |-> n, err |-> nil]
ErrResult(e) == [ack |-> FALSE, Block |-> 0, err |-> e]

\* The parser with the ERROR message sliced up to the end of the datagram,
\* its final NUL included.
parseACKPacketKeepsNUL(b) ==
    IF Len(b) < 4 THEN ErrResult(errInvalidACKPacket)
    ELSE LET opcode == Uint16(b, 1)
             n == Uint16(b, 3)
         IN  IF Len(b) = 4 /\ opcode = opcodeACK THEN AckResult(n)
             ELSE IF opcode # OpcodeError THEN ErrResult(errInvalidERRORPacket)
             ELSE IF Len(b) < 5 THEN ErrResult(errInvalidERRORPacket)
             ELSE IF b[Len(b)] # NUL THEN ErrResult(errInvalidERRORPacket)
             ELSE ErrResult(ErrorPacket(n, SubSeq(b, 5, Len(b))))

\* The parser that takes any datagram with the ACK opcode for an ACK.
parseACKPacketAnyLength(b) ==
    IF Len(b) < 4 THEN ErrResult(errInvalidACKPacket)
    ELSE LET opcode == Uint16(b, 1)
             n == Uint16(b, 3)
         IN  IF opcode = opcodeACK THEN AckResult(n)
             ELSE IF opcode # OpcodeError THEN ErrResult(errInvalidERRORPacket)
             ELSE IF Len(b) < 5 THEN ErrResult(errInvalidERRORPacket)
             ELSE IF b[Len(b)] # NUL THEN ErrResult(errInvalidERRORPacket)
             ELSE ErrResult(ErrorPacket(n, SubSeq(b, 5, Len(b) - 1)))

parseACKPacket(b) ==
    IF Len(b) < 4 THEN ErrResult(errInvalidACKPacket)
    ELSE LET opcode == Uint16(b, 1)
             n == Uint16(b, 3)
         IN  IF Len(b) = 4 /\ opcode = opcodeACK THEN AckResult(n)
             ELSE IF opcode # OpcodeError THEN ErrResult(errInvalidERRORPacket)
             ELSE IF Len(b) < 5 THEN ErrResult(errInvalidERRORPacket)
             ELSE IF b[Len(b)] # NUL THEN ErrResult(errInvalidERRORPacket)
             ELSE ErrResult(ErrorPacket(n, SubSeq(b, 5, Len(b) - 1)))

(***************************************************************************)
(* The netascii encoders.  Both scan the input from left to right; the     *)
(* scan is cut into segments of SegLen bytes only to keep the evaluation   *)
(* shallow, the result is that of one loop over the input.                 *)
(***************************************************************************)
SegLen == 32

\* The body of toNetASCII's loop for the bytes p[i..hi]: what it writes to out.
RECURSIVE toNetASCIILoop(_, _, _)
toNetASCIILoop(p, i, hi) ==
    IF i > hi THEN <<>>
    ELSE (IF p[i] = LF THEN <<CR>> ELSE <<>>)
         \o <<p[i]>>
         \o (IF p[i] = CR THEN <<NUL>> ELSE <<>>)
         \o toNetASCIILoop(p, i + 1, hi)

RECURSIVE toNetASCIIFrom(_, _)
toNetASCIIFrom(p, i) ==
    IF i > Len(p) THEN <<>>
    ELSE LET hi == Min(i + SegLen - 1, Len(p))
         IN  toNetASCIILoop(p, i, hi) \o toNetASCIIFrom(p, hi + 1)

toNetASCII(p) == toNetASCIIFrom(p, 1)

\* bytes.Replace(s, []byte{old}, new, -1) for a one-byte pattern.
RECURSIVE ReplaceLoop(_, _, _, _, _)
ReplaceLoop(s, old, new, i, hi) ==
    IF i > hi THEN <<>>
    ELSE (IF s[i] = old THEN new ELSE <<s[i]>>) \o ReplaceLoop(s, old, new, i + 1, hi)

RECURSIVE ReplaceFrom(_, _, _, _)
ReplaceFrom(s, old, new, i) ==
    IF i > Len(s) THEN <<>>
    ELSE LET hi == Min(i + SegLen - 1, Len(s))
         IN  ReplaceLoop(s, old, new, i, hi) \o ReplaceFrom(s, old, new, hi + 1)

bytesReplace(s, old, new) == ReplaceFrom(s, old, new, 1)

\* The two replacements in the other order: the CR put before an LF is then
\* itself followed by a NUL.
netASCIIReplaceLFFirst(p) ==
    bytesReplace(bytesReplace(p, LF, <<CR, LF>>), CR, <<CR, NUL>>)

\* What netASCIIResponseWriter.Write hands to the embedded writer.
netASCIIReplace(p) ==
    bytesReplace(bytesReplace(p, CR, <<CR, NUL>>), LF, <<CR, LF>>)

(***************************************************************************)
(* The netascii decoders: the loop of fromNetASCII and the two             *)
(* bytes.Replace calls of its earlier form.                                *)
(***************************************************************************)
\* The loop of fromNetASCII without the test for the last byte: a CR at the
\* end of the input has no byte after it and is dropped.
RECURSIVE fromNetASCIIDropsLastCR(_, _)
fromNetASCIIDropsLastCR(p, i) ==
    IF i > Len(p) THEN <<>>
    ELSE IF p[i] # CR THEN <<p[i]>> \o fromNetASCIIDropsLastCR(p, i + 1)
    ELSE IF i = Len(p) THEN <<>>
    ELSE (IF p[i + 1] = LF THEN <<LF>>
          ELSE IF p[i + 1] = NUL THEN <<CR>>
          ELSE <<>>)
         \o fromNetASCIIDropsLastCR(p, i + 2)

\* The loop of fromNetASCII that keeps the NUL after a CR.
RECURSIVE fromNetASCIIKeepsNUL(_, _)
fromNetASCIIKeepsNUL(p, i) ==
    IF i > Len(p) THEN <<>>
    ELSE IF p[i] # CR \/ i = Len(p) THEN <<p[i]>> \o fromNetASCIIKeepsNUL(p, i + 1)
    ELSE (IF p[i + 1] = LF THEN <<LF>>
          ELSE IF p[i + 1] = NUL THEN <<CR, NUL>>
          ELSE <<>>)
         \o fromNetASCIIKeepsNUL(p, i + 2)

\* The loop of fromNetASCII from the byte p[i] on: what it writes to out.  A
\* CR that is not the last byte is read together with the byte after it, and
\* the switch writes nothing when that byte is neither LF nor NUL.
RECURSIVE fromNetASCIILoop(_, _)
fromNetASCIILoop(p, i) ==
    IF i > Len(p) THEN <<>>
    ELSE IF p[i] # CR \/ i = Len(p) THEN <<p[i]>> \o fromNetASCIILoop(p, i + 1)
    ELSE (IF p[i + 1] = LF THEN <<LF>>
          ELSE IF p[i + 1] = NUL THEN <<CR>>
          ELSE <<>>)
         \o fromNetASCIILoop(p, i + 2)

\* fromNetASCII returns (out.Bytes(), nil): neither ReadByte can fail other
\* than with io.EOF at the top of the loop.
fromNetASCII(p) == [out |-> fromNetASCIILoop(p, 1), err |-> nil]

\* bytes.Replace(s, []byte{CR, b}, []byte{new}, -1): non-overlapping matches
\* from the left.
RECURSIVE ReplacePair(_, _, _, _)
ReplacePair(s, b, new, i) ==
    IF i > Len(s) THEN <<>>
    ELSE IF i < Len(s) /\ s[i] = CR /\ s[i + 1] = b
         THEN <<new>> \o ReplacePair(s, b, new, i + 2)
         ELSE <<s[i]>> \o ReplacePair(s, b, new, i + 1)

\* The earlier fromNetASCII, which has no error result.
fromNetASCIIReplace(p) ==
    [out |-> ReplacePair(ReplacePair(p, LF, LF, 1), NUL, CR, 1), err |-> nil]

(***************************************************************************)
(* The request codec.                                                      *)
(***************************************************************************)
ModeNetASCII == <<110, 101, 116, 97, 115, 99, 105, 105>>
ModeOctet == <<111, 99, 116, 101, 116>>

errInvalidRequestPacket == Err("errInvalidRequestPacket")

\* bytes.IndexByte(s, c): the 0-based index of the first c in s, or -1.
IndexByte(s, c) ==
    IF \E i \in 1..Len(s) : s[i] = c
    THEN (CHOOSE i \in 1..Len(s) : s[i] = c /\ \A j \in 1..(i - 1) : s[j] # c) - 1
    ELSE -1

\* strings.ToLower on the bytes of s.  ASCII letters map to lower case; of
\* the runes beyond ASCII the inputs hold only U+0130 (bytes C4 B0), whose
\* lower case is "i"; any other byte above 127 is not valid UTF-8 here and
\* comes out as U+FFFD (EF BF BD).
RECURSIVE ToLowerFrom(_, _)
ToLowerFrom(s, i) ==
    IF i > Len(s) THEN <<>>
    ELSE IF s[i] >= 65 /\ s[i] <= 90 THEN <<s[i] + 32>> \o ToLowerFrom(s, i + 1)
    ELSE IF s[i] < 128 THEN <<s[i]>> \o ToLowerFrom(s, i + 1)
    ELSE IF i < Len(s) /\ s[i] = 196 /\ s[i + 1] = 176
         THEN <<105>> \o ToLowerFrom(s, i + 2)
    ELSE <<239, 191, 189>> \o ToLowerFrom(s, i + 1)

ToLower(s) == ToLowerFrom(s, 1)

NoPacket == [Opcode |-> 0, Filename |-> <<>>, Mode |-> <<>>]
RequestResult(o, f, m) ==
    [pkt |-> [Opcode |-> o, Filename |-> f, Mode |-> m], err |-> nil]
RequestError == [pkt |-> NoPacket, err |-> errInvalidRequestPacket]

\* The parser that takes the mode's NUL for the end of the packet and
\* refuses a request with bytes after it.
parseRequestPacketNoTail(b) ==
    IF Len(b) < 4 THEN RequestError
    ELSE LET opcode == Uint16(b, 1)
         IN  IF opcode # OpcodeRead /\ opcode # OpcodeWrite THEN RequestError
             ELSE LET idx == IndexByte(SubSeq(b, 3, Len(b)), NUL)
                  IN  IF idx = -1 THEN RequestError
                      ELSE LET filename == SubSeq(b, 3, idx + 2)
                               offset == idx + 3
                               idx2 == IndexByte(SubSeq(b, offset + 1, Len(b)), NUL)
                           IN  IF idx2 = -1 THEN RequestError
                               ELSE LET mode == ToLower(SubSeq(b, offset + 1, offset + idx2))
                                    IN  IF mode # ModeNetASCII /\ mode # ModeOctet
                                        THEN RequestError
                                        ELSE IF offset + idx2 + 1 # Len(b) THEN RequestError
                                        ELSE RequestResult(opcode, filename, mode)

\* The parser without the check of the last byte.
parseRequestPacketNoFinalNUL(b) ==
    IF Len(b) < 4 THEN RequestError
    ELSE LET opcode == Uint16(b, 1)
         IN  IF opcode # OpcodeRead /\ opcode # OpcodeWrite THEN RequestError
             ELSE LET idx == IndexByte(SubSeq(b, 3, Len(b)), NUL)
                  IN  IF idx = -1 THEN RequestError
                      ELSE LET filename == SubSeq(b, 3, idx + 2)
                               offset == idx + 3
                               idx2 == IndexByte(SubSeq(b, offset + 1, Len(b)), NUL)
                           IN  IF idx2 = -1 THEN RequestError
                               ELSE LET mode == ToLower(SubSeq(b, offset + 1, offset + idx2))
                                    IN  IF mode # ModeNetASCII /\ mode # ModeOctet
                                        THEN RequestError
                                        ELSE RequestResult(opcode, filename, mode)

parseRequestPacket(b) ==
    IF Len(b) < 4 THEN RequestError
    ELSE LET opcode == Uint16(b, 1)
         IN  IF opcode # OpcodeRead /\ opcode # OpcodeWrite THEN RequestError
             ELSE LET idx == IndexByte(SubSeq(b, 3, Len(b)), NUL)
                  IN  IF idx = -1 THEN RequestError
                      ELSE LET filename == SubSeq(b, 3, idx + 2)
                               offset == idx + 3
                               idx2 == IndexByte(SubSeq(b, offset + 1, Len(b)), NUL)
                           IN  IF idx2 = -1 THEN RequestError
                               ELSE LET mode == ToLower(SubSeq(b, offset + 1, offset + idx2))
                                    IN  IF mode # ModeNetASCII /\ mode # ModeOctet
                                        THEN RequestError
                                        ELSE IF b[Len(b)] # NUL THEN RequestError
                                        ELSE RequestResult(opcode, filename, mode)

\* parseRequest: the Request made of the packet, the length of the datagram
\* and the sender's address.
NoRequest ==
    [Opcode |-> 0, Filename |-> <<>>, Mode |-> <<>>, Length |-> 0, RemoteAddr |-> ""]
parseRequest(b, remoteAddr) ==
    LET p == parseRequestPacket(b)
    IN  IF p.err # nil THEN [req |-> NoRequest, err |-> p.err]
        ELSE [req |-> [Opcode |-> p.pkt.Opcode, Filename |-> p.pkt.Filename,
                       Mode |-> p.pkt.Mode, Length |-> Len(b),
                       RemoteAddr |-> remoteAddr],
              err |-> nil]

(***************************************************************************)
(* Wire packets.                                                           *)
(***************************************************************************)
\* The framing with the block number in little-endian byte order.
DataPacketLittleEndian(blk, payload) ==
    PutUint16(opcodeDATA) \o <<blk % 256, blk \div 256>> \o payload

\* The DATA packet writeOneBlock frames in r.wb[:cn+4].
DataPacket(blk, payload) == PutUint16(opcodeDATA) \o PutUint16(blk) \o payload

DataBlock(pkt) == Uint16(pkt, 3)
DataPayload(pkt) == SubSeq(pkt, 5, Len(pkt))

\* The ACK and ERROR packets a peer puts on the wire.
AckBytes(n) == PutUint16(opcodeACK) \o PutUint16(n)
ErrorBytes(c, m) == PutUint16(OpcodeError) \o PutUint16(c) \o m \o <<NUL>>

(***************************************************************************)
(* The inputs of the model.                                                *)
(***************************************************************************)
\* The data the handler writes is a prefix of this endless byte stream; it
\* holds CR LF, a lone LF and a lone CR as well as plain bytes.
Pattern == <<97, CR, LF, 98, LF, CR, 99>>

\* The bytes at offsets pos .. pos+n-1 of the stream.
DataChunk(pos, n) == [i \in 1..n |-> Pattern[((pos + i - 1) % Len(Pattern)) + 1]]

\* The lengths of the slices the handler passes to Write.
ChunkSizes == {88, 512, 1024}

\* Datagrams that someone other than the modelled client sends to the
\* session's endpoint: ACKs with assorted block numbers, an ERROR packet and
\* malformed datagrams (too short, an ERROR without its NUL, a DATA opcode,
\* an ACK with a byte too many).
ForeignDatagrams ==
    { AckBytes(0), AckBytes(1), AckBytes(BlockModulus - 1),
      ErrorBytes(3, <<97, 98, 99>>),
      <<0, 4, 0>>, <<0, 5, 0, 1, 97>>, <<0, 3, 0, 1>>, <<0, 4, 0, 1, 0>> }

\* r.remoteAddr, the address of the session's peer, and an address that is
\* not the peer's.
remoteAddr == "peer"
otherAddr == "other"
Senders == {remoteAddr, otherAddr}

\* A session that has already moved WrapStart blocks, all acknowledged.
WrapStart == BlockModulus - 2

(***************************************************************************)
(* State.                                                                  *)
(***************************************************************************)
VARIABLES
    \* the response (bufferedSocketResponseWriter) struct
    buf,        \* r.buf: bytes accepted and not yet framed
    block,      \* r.block
    wb,         \* r.wb[:cn+4]: the framed DATA packet
    rb,         \* r.rb[:readN]: the datagram read last
    fromAddr,   \* addr: the source address ReadFrom returned with it
    netASCII,   \* r.netASCII (the netASCIIResponseWriter wrapper is in place)
    closed,     \* r.conn has been closed
    \* the handler goroutine
    pc,         \* "idle" between calls, "send" before WriteTo, "read" in ReadFrom
    op,         \* the call in progress: "Write", "Flush" or "none"
    remaining,  \* iterations of Write's loop still to run after this one
    \* the session's endpoint and the network
    deadline,   \* "none", "armed" or "expired": the deadline set on r.conn
    sentLog,    \* the datagrams WriteTo has sent, in order
    toClient,   \* indices of sentLog: DATA packets in flight to the client
    toServer,   \* datagrams in flight to or queued at the session's endpoint
    senders,    \* the source address of each datagram of toServer
    clientLast, \* the block number of the client's last ACK, -1 before it
    \* history
    calls,        \* invocations of writeOneBlock so far
    written,      \* bytes the handler has passed to Write so far
    numWrites,    \* Write calls so far
    numFlushes,   \* Flush calls so far
    lastCall,     \* the last Write or Flush call and what it returned
    lastResult,   \* what the last invocation of writeOneBlock returned
    writeFailed,  \* a Write has returned an error
    readTimeouts, \* reads that timed out since the last transmission
    replied,      \* a datagram has been read since the last transmission
    faults,       \* disturbances so far (see MaxFaults)
    \* the dispatcher (Server.Serve) and its goroutines
    sbuf,       \* buf: the receive buffer of the loop, reused for every datagram
    loop,       \* the loop's position and the results of its last ReadFrom
    conns,      \* the conn values made so far, each with its goroutine
    \* the codec and the netascii functions taken alone
    input,      \* the byte slice passed
    fn,         \* the function applied to it, "none" before
    output      \* what it returned

engineVars == <<buf, block, wb, rb, fromAddr, netASCII, closed>>
callVars == <<pc, op, remaining>>
netVars == <<deadline, sentLog, toClient, toServer, senders, clientLast>>
callHist == <<numWrites, numFlushes, lastCall, writeFailed>>
histVars == <<calls, written, callHist, lastResult, readTimeouts, replied, faults>>
sessionVars == <<engineVars, callVars, netVars, histVars>>
serverVars == <<sbuf, loop, conns>>
codecVars == <<input, fn, output>>
outsideVars == <<serverVars, codecVars>>
vars == <<sessionVars, outsideVars>>

NoCall == [op |-> "none", len |-> 0, buffered |-> 0, first |-> 0, n |-> 0,
           err |-> Err("nil"), done |-> TRUE]
NoResult == [call |-> -1, err |-> Err("nil")]

\* No dispatcher runs and no function has been applied.
NoLoop == [pc |-> "off", n |-> 0, addr |-> "", received |-> 0]
NoServer ==
    /\ sbuf = <<>>
    /\ loop = NoLoop
    /\ conns = <<>>

NoCodec ==
    /\ input = <<>>
    /\ fn = "none"
    /\ output = <<>>

InitSession ==
    /\ buf = <<>>
    /\ wb = <<>>
    /\ rb = <<>>
    /\ fromAddr = ""
    /\ netASCII \in BOOLEAN
    /\ closed = FALSE
    /\ pc = "idle"
    /\ op = "none"
    /\ remaining = 0
    /\ deadline = "none"
    /\ sentLog = <<>>
    /\ toClient = {}
    /\ toServer = <<>>
    /\ senders = <<>>
    /\ clientLast = -1
    /\ written = 0
    /\ numWrites = 0
    /\ numFlushes = 0
    /\ lastCall = NoCall
    /\ lastResult = NoResult
    /\ writeFailed = FALSE
    /\ readTimeouts = 0
    /\ replied = FALSE
    /\ faults = 0

InitCommon ==
    /\ NoServer
    /\ NoCodec
    /\ InitSession

\* No session is followed in detail.
NoSession ==
    /\ InitSession
    /\ netASCII = FALSE
    /\ block = 0
    /\ calls = 0

\* newResponse: a fresh session.
Init ==
    /\ InitCommon
    /\ block = 0
    /\ calls = 0

\* A session caught after WrapStart blocks have been sent and acknowledged
\* (or a fresh one), so that the block counter reaches its largest value.
InitWrap ==
    /\ InitCommon
    /\ calls \in {0, WrapStart}
    /\ block = calls % BlockModulus

(***************************************************************************)
(* The handler's calls: Write, Flush, Close, and writeOneBlock within the  *)
(* first two.                                                              *)
(***************************************************************************)
\* r.block-1 in uint16 arithmetic
PrevBlock(b) == (b + BlockModulus - 1) % BlockModulus

\* The count of blocks rounded up instead of down.
AvailableCeil(cur) == (Len(cur) + blockSize - 1) \div blockSize

\* int(math.Floor(float64(r.buf.Len()) / float64(blockSize)))
Available(cur) == Len(cur) \div blockSize

\* The encoding that holds back the NUL of a CR at the end of the input, as
\* if the byte after it were still to be seen.
TranscodedDefersLastCR(p) ==
    IF netASCII
    THEN { IF p # <<>> /\ p[Len(p)] = CR
           THEN SubSeq(toNetASCII(p), 1, Len(toNetASCII(p)) - 1)
           ELSE toNetASCII(p) }
    ELSE {p}

\* What Write appends to the buffer for the input p: the input itself, or in
\* netascii mode its encoding, made by toNetASCII (response.Write) or by the
\* two bytes.Replace calls (netASCIIResponseWriter.Write).
Transcoded(p) == IF netASCII THEN {toNetASCII(p), netASCIIReplace(p)} ELSE {p}

\* The byte count Write returns for the input p, appended as tp: pl in
\* response.Write, len(p) in netASCIIResponseWriter.Write, n in the
\* unwrapped bufferedSocketResponseWriter.Write.
\* The count of the bytes appended to the buffer.
WriteCountAppended(p, tp) == Len(tp)

WriteCount(p, tp) == Len(p)

\* The head of writeOneBlock: the counter is incremented, the packet framed
\* from up to blockSize bytes of the buffer cur, and the loop entered; rem
\* is what is left of the caller's loop.
writeOneBlockBegin(cur, rem) ==
    LET nb == (block + 1) % BlockModulus
    IN  /\ block' = nb
        /\ wb' = DataPacket(nb, BufNext(cur, blockSize))
        /\ buf' = BufRest(cur, blockSize)
        /\ calls' = calls + 1
        /\ pc' = "send"
        /\ remaining' = rem

\* Write or Flush returns the error e to the handler.
Finish(e) ==
    /\ pc' = "idle"
    /\ op' = "none"
    /\ remaining' = 0
    /\ lastCall' = [lastCall EXCEPT !.err = e, !.done = TRUE]
    /\ writeFailed' = (writeFailed \/ (op = "Write" /\ e # nil))

\* writeOneBlock that undoes its work when it fails: the bytes of the block
\* go back to the front of the buffer and the counter back by one.
writeOneBlockReturnRollsBack(e) ==
    /\ lastResult' = [call |-> calls, err |-> e]
    /\ IF op = "Write" /\ e = nil /\ remaining > 0
       THEN /\ writeOneBlockBegin(buf, remaining - 1)
            /\ UNCHANGED <<outsideVars, op, lastCall, writeFailed>>
       ELSE /\ Finish(e)
            /\ buf' = IF e = nil THEN buf ELSE SubSeq(wb, 5, Len(wb)) \o buf
            /\ block' = IF e = nil THEN block ELSE PrevBlock(block)
            /\ UNCHANGED <<outsideVars, wb, calls>>

\* writeOneBlock returns e: Flush returns it; Write returns it when it is an
\* error or the loop is over, and calls writeOneBlock again otherwise.
writeOneBlockReturn(e) ==
    /\ lastResult' = [call |-> calls, err |-> e]
    /\ IF op = "Write" /\ e = nil /\ remaining > 0
       THEN /\ writeOneBlockBegin(buf, remaining - 1)
            /\ UNCHANGED <<outsideVars, op, lastCall, writeFailed>>
       ELSE /\ Finish(e)
            /\ UNCHANGED <<outsideVars, buf, block, wb, calls>>

\* Write without the early return: what is buffered goes out as a block even
\* when it is shorter than blockSize.
WriteSendsShort(n) ==
    /\ pc = "idle"
    /\ numWrites < MaxWrites
    /\ LET p == DataChunk(written, n)
       IN  \E tp \in Transcoded(p) :
              LET cur == buf \o tp
                  entry == [op |-> "Write", len |-> Len(p), buffered |-> Len(cur),
                            first |-> calls + 1, n |-> WriteCount(p, tp),
                            err |-> nil, done |-> FALSE]
              IN  /\ lastCall' = entry
                  /\ op' = "Write"
                  /\ writeOneBlockBegin(cur, AvailableCeil(cur) - 1)
    /\ written' = written + n
    /\ numWrites' = numWrites + 1
    /\ UNCHANGED <<outsideVars, rb, fromAddr, netASCII, closed, netVars, numFlushes, writeFailed,
                   lastResult, readTimeouts, replied, faults>>

Write(n) ==
    /\ pc = "idle"
    /\ numWrites < MaxWrites
    /\ LET p == DataChunk(written, n)
       IN  \E tp \in Transcoded(p) :
              LET cur == buf \o tp
                  entry == [op |-> "Write", len |-> Len(p), buffered |-> Len(cur),
                            first |-> calls + 1, n |-> WriteCount(p, tp),
                            err |-> nil, done |-> FALSE]
              IN  IF Len(cur) < blockSize
                  THEN /\ buf' = cur
                       /\ lastCall' = [entry EXCEPT !.done = TRUE]
                       /\ UNCHANGED <<outsideVars, block, wb, calls, pc, op, remaining>>
                  ELSE /\ lastCall' = entry
                       /\ op' = "Write"
                       /\ writeOneBlockBegin(cur, Available(cur) - 1)
    /\ written' = written + n
    /\ numWrites' = numWrites + 1
    /\ UNCHANGED <<outsideVars, rb, fromAddr, netASCII, closed, netVars, numFlushes, writeFailed,
                   lastResult, readTimeouts, replied, faults>>

\* Flush that sends nothing when the buffer is empty.
FlushSkipsEmpty ==
    /\ pc = "idle"
    /\ numFlushes < MaxFlushes
    /\ IF buf = <<>>
       THEN /\ lastCall' = [op |-> "Flush", len |-> 0, buffered |-> 0,
                            first |-> calls + 1, n |-> 0, err |-> nil, done |-> TRUE]
            /\ UNCHANGED <<outsideVars, buf, block, wb, calls, pc, op, remaining>>
       ELSE /\ lastCall' = [op |-> "Flush", len |-> 0, buffered |-> Len(buf),
                            first |-> calls + 1, n |-> 0, err |-> nil, done |-> FALSE]
            /\ op' = "Flush"
            /\ writeOneBlockBegin(buf, 0)
    /\ numFlushes' = numFlushes + 1
    /\ UNCHANGED <<outsideVars, rb, fromAddr, netASCII, closed, netVars, written, numWrites, writeFailed,
                   lastResult, readTimeouts, replied, faults>>

Flush ==
    /\ pc = "idle"
    /\ numFlushes < MaxFlushes
    /\ lastCall' = [op |-> "Flush", len |-> 0, buffered |-> Len(buf),
                    first |-> calls + 1, n |-> 0, err |-> nil, done |-> FALSE]
    /\ op' = "Flush"
    /\ writeOneBlockBegin(buf, 0)
    /\ numFlushes' = numFlushes + 1
    /\ UNCHANGED <<outsideVars, rb, fromAddr, netASCII, closed, netVars, written, numWrites, writeFailed,
                   lastResult, readTimeouts, replied, faults>>

Close ==
    /\ pc = "idle"
    /\ ~closed
    /\ closed' = TRUE
    /\ UNCHANGED <<outsideVars, buf, block, wb, rb, fromAddr, netASCII, callVars, netVars, histVars>>

(***************************************************************************)
(* The loop of writeOneBlock.  A step of the loop is one call on r.conn    *)
(* with what follows it up to the next call.  The deadline is absolute:    *)
(* once it has passed, a read fails with a timeout until SetDeadline is    *)
(* called again, which only the send side of the loop does.                *)
(***************************************************************************)
\* SetDeadline fails (the connection is closed): writeOneBlock returns.
SetDeadlineFails ==
    /\ pc = "send"
    /\ closed
    /\ writeOneBlockReturn(errClosed)
    /\ UNCHANGED <<outsideVars, rb, fromAddr, netASCII, closed, netVars, written, numWrites, numFlushes,
                   readTimeouts, replied, faults>>

\* WriteTo sends the whole packet.
SendOK ==
    /\ pc = "send"
    /\ ~closed
    /\ Len(sentLog) < MaxSent
    /\ Cardinality(toClient) < MaxInFlight
    /\ deadline' = "armed"
    /\ sentLog' = Append(sentLog, [pkt |-> wb, call |-> calls, op |-> op])
    /\ toClient' = toClient \cup {Len(sentLog) + 1}
    /\ pc' = "read"
    /\ readTimeouts' = 0
    /\ replied' = FALSE
    /\ UNCHANGED <<outsideVars, engineVars, op, remaining, toServer, senders, clientLast, calls, written,
                   callHist, lastResult, faults>>

\* WriteTo fails with a timeout and writeOneBlock returns the error.
SendTimeoutFails ==
    /\ pc = "send"
    /\ ~closed
    /\ deadline' = "armed"
    /\ writeOneBlockReturn(Err("net.OpError: i/o timeout"))
    /\ UNCHANGED <<outsideVars, rb, fromAddr, netASCII, closed, sentLog, toClient, toServer, senders,
                   clientLast, written, numWrites, numFlushes, readTimeouts,
                   replied, faults>>

\* WriteTo fails with a timeout: the loop starts over.
SendTimeout ==
    /\ pc = "send"
    /\ ~closed
    /\ deadline' = "armed"
    /\ UNCHANGED <<outsideVars, engineVars, callVars, sentLog, toClient, toServer, senders, clientLast,
                   histVars>>

\* The errors WriteTo and ReadFrom return other than timeouts.
TransportErrors == {errOpError, errOther}

\* WriteTo fails otherwise or writes short, and the loop starts over as it
\* does on a timeout.
SendFailsRetries(e) ==
    /\ pc = "send"
    /\ ~closed
    /\ faults < MaxFaults
    /\ faults' = faults + 1
    /\ deadline' = "armed"
    /\ UNCHANGED <<outsideVars, engineVars, callVars, sentLog, toClient, toServer, senders,
                   clientLast, calls, written, callHist, lastResult, readTimeouts,
                   replied>>

\* WriteTo fails otherwise, or reports fewer bytes than the packet has (no
\* datagram is counted as sent then): writeOneBlock returns.
SendFails(e) ==
    /\ pc = "send"
    /\ ~closed
    /\ faults < MaxFaults
    /\ faults' = faults + 1
    /\ deadline' = "armed"
    /\ writeOneBlockReturn(e)
    /\ UNCHANGED <<outsideVars, rb, fromAddr, netASCII, closed, sentLog, toClient, toServer, senders, clientLast,
                   written, numWrites, numFlushes, readTimeouts, replied>>

\* ReadFrom fails with a timeout and writeOneBlock gives up waiting: it
\* returns nil as if the block had been acknowledged.
ReadTimeoutGivesUp ==
    /\ pc = "read"
    /\ deadline = "expired"
    /\ writeOneBlockReturn(nil)
    /\ UNCHANGED <<outsideVars, rb, fromAddr, netASCII, closed, netVars, written, numWrites, numFlushes,
                   readTimeouts, replied, faults>>

\* ReadFrom fails with a timeout and the outer loop starts over: the
\* deadline is set again and the block sent again.
ReadTimeoutResends ==
    /\ pc = "read"
    /\ deadline = "expired"
    /\ pc' = "send"
    /\ readTimeouts' = Min(readTimeouts + 1, MaxCounted)
    /\ UNCHANGED <<outsideVars, engineVars, op, remaining, netVars, calls, written,
                   callHist, lastResult, replied, faults>>

\* ReadFrom fails with a timeout: the inner loop reads again.
ReadTimeout ==
    /\ pc = "read"
    /\ deadline = "expired"
    /\ readTimeouts' = Min(readTimeouts + 1, MaxCounted)
    /\ UNCHANGED <<outsideVars, engineVars, callVars, netVars, calls, written, callHist,
                   lastResult, replied, faults>>

\* ReadFrom fails otherwise: writeOneBlock returns.
ReadFails(e) ==
    /\ pc = "read"
    /\ deadline # "expired"
    /\ faults < MaxFaults
    /\ faults' = faults + 1
    /\ writeOneBlockReturn(e)
    /\ UNCHANGED <<outsideVars, rb, fromAddr, netASCII, closed, netVars, written, numWrites, numFlushes,
                   readTimeouts, replied>>

\* What ReadFrom stores in r.rb for the datagram d: rb holds blockSize+4 bytes.
ReadInto(d) == BufNext(d, blockSize + 4)

\* ReadFrom can return a datagram.
CanRead ==
    /\ pc = "read"
    /\ deadline # "expired"
    /\ toServer # <<>>

\* The comparison without the uint16 wrap of the subtraction.
IsDuplicateNoWrap(a, cur) == a.Block = cur - 1

\* does the ACK a acknowledge the block before the current one again?
IsDuplicate(a, cur) == a.Block = PrevBlock(cur)

\* The datagram read does not parse as an ACK: writeOneBlock returns the
\* peer's ErrorPacket, and reads again when the datagram is malformed.
RecvErrorSkipsMalformed ==
    /\ CanRead
    /\ LET res == parseACKPacket(ReadInto(Head(toServer)))
       IN  /\ res.err # nil
           /\ IF res.err.type = "ErrorPacket"
              THEN writeOneBlockReturn(res.err)
              ELSE UNCHANGED <<outsideVars, buf, block, wb, calls, callVars, lastCall,
                               writeFailed, lastResult>>
    /\ rb' = ReadInto(Head(toServer))
    /\ toServer' = Tail(toServer)
    /\ senders' = Tail(senders)
    /\ fromAddr' = Head(senders)
    /\ replied' = TRUE
    /\ UNCHANGED <<outsideVars, netASCII, closed, deadline, sentLog, toClient, clientLast,
                   written, numWrites, numFlushes, readTimeouts, faults>>

\* The datagram read does not parse as an ACK: writeOneBlock returns the
\* error when the datagram is from r.remoteAddr, and reads again when it is
\* from another address.
RecvErrorChecksSender ==
    /\ CanRead
    /\ LET res == parseACKPacket(ReadInto(Head(toServer)))
       IN  /\ res.err # nil
           /\ IF Head(senders) = remoteAddr
              THEN writeOneBlockReturn(res.err)
              ELSE UNCHANGED <<outsideVars, buf, block, wb, calls, callVars, lastCall,
                               writeFailed, lastResult>>
    /\ rb' = ReadInto(Head(toServer))
    /\ toServer' = Tail(toServer)
    /\ senders' = Tail(senders)
    /\ fromAddr' = Head(senders)
    /\ replied' = TRUE
    /\ UNCHANGED <<outsideVars, netASCII, closed, deadline, sentLog, toClient, clientLast,
                   written, numWrites, numFlushes, readTimeouts, faults>>

\* The datagram read does not parse as an ACK: writeOneBlock returns the
\* codec's error or the peer's ErrorPacket.
RecvError ==
    /\ CanRead
    /\ LET res == parseACKPacket(ReadInto(Head(toServer)))
       IN  /\ res.err # nil
           /\ writeOneBlockReturn(res.err)
    /\ rb' = ReadInto(Head(toServer))
    /\ toServer' = Tail(toServer)
    /\ senders' = Tail(senders)
    /\ fromAddr' = Head(senders)
    /\ replied' = TRUE
    /\ UNCHANGED <<outsideVars, netASCII, closed, deadline, sentLog, toClient, clientLast,
                   written, numWrites, numFlushes, readTimeouts, faults>>

\* The ACK read repeats the previous block and the outer loop starts over
\* from the top of writeOneBlock, counting and framing the block again.
RecvDuplicateReframes ==
    /\ CanRead
    /\ LET res == parseACKPacket(ReadInto(Head(toServer)))
       IN  /\ res.err = nil
           /\ IsDuplicate(res, block)
    /\ rb' = ReadInto(Head(toServer))
    /\ toServer' = Tail(toServer)
    /\ senders' = Tail(senders)
    /\ fromAddr' = Head(senders)
    /\ pc' = "send"
    /\ replied' = TRUE
    /\ block' = (block + 1) % BlockModulus
    /\ wb' = DataPacket((block + 1) % BlockModulus, DataPayload(wb))
    /\ UNCHANGED <<outsideVars, buf, netASCII, closed, op, remaining, deadline,
                   sentLog, toClient, clientLast, calls, written, callHist,
                   lastResult, readTimeouts, faults>>

\* The ACK read repeats the previous block: the outer loop starts over.
RecvDuplicate ==
    /\ CanRead
    /\ LET res == parseACKPacket(ReadInto(Head(toServer)))
       IN  /\ res.err = nil
           /\ IsDuplicate(res, block)
    /\ rb' = ReadInto(Head(toServer))
    /\ toServer' = Tail(toServer)
    /\ senders' = Tail(senders)
    /\ fromAddr' = Head(senders)
    /\ pc' = "send"
    /\ replied' = TRUE
    /\ UNCHANGED <<outsideVars, buf, block, wb, netASCII, closed, op, remaining, deadline,
                   sentLog, toClient, clientLast, calls, written, callHist,
                   lastResult, readTimeouts, faults>>

\* Any other ACK is taken only when it carries the number of the block
\* outstanding; with another number writeOneBlock returns an error.
RecvAckRejectsOthers ==
    /\ CanRead
    /\ LET res == parseACKPacket(ReadInto(Head(toServer)))
       IN  /\ res.err = nil
           /\ ~IsDuplicate(res, block)
           /\ writeOneBlockReturn(IF res.Block = block THEN nil ELSE errInvalidACKPacket)
    /\ rb' = ReadInto(Head(toServer))
    /\ toServer' = Tail(toServer)
    /\ senders' = Tail(senders)
    /\ fromAddr' = Head(senders)
    /\ replied' = TRUE
    /\ UNCHANGED <<outsideVars, netASCII, closed, deadline, sentLog, toClient, clientLast,
                   written, numWrites, numFlushes, readTimeouts, faults>>

\* Any other ACK: writeOneBlock returns nil.
RecvAck ==
    /\ CanRead
    /\ LET res == parseACKPacket(ReadInto(Head(toServer)))
       IN  /\ res.err = nil
           /\ ~IsDuplicate(res, block)
    /\ writeOneBlockReturn(nil)
    /\ rb' = ReadInto(Head(toServer))
    /\ toServer' = Tail(toServer)
    /\ senders' = Tail(senders)
    /\ fromAddr' = Head(senders)
    /\ replied' = TRUE
    /\ UNCHANGED <<outsideVars, netASCII, closed, deadline, sentLog, toClient, clientLast,
                   written, numWrites, numFlushes, readTimeouts, faults>>

(***************************************************************************)
(* Time, the network and the client.  The engine looks at its endpoint     *)
(* only inside ReadFrom, and a datagram that arrives earlier waits in the  *)
(* socket's queue until then; so what the network and the client do is     *)
(* modelled at the time the engine reads.                                  *)
(***************************************************************************)
Reading == pc = "read"

\* The deadline set before the last send passes while the engine reads.
DeadlineExpires ==
    /\ pc = "read"
    /\ deadline = "armed"
    /\ deadline' = "expired"
    /\ UNCHANGED <<outsideVars, engineVars, callVars, sentLog, toClient, toServer, senders, clientLast,
                   histVars>>

\* The client receives a DATA packet and acknowledges its block number.
ClientReceive(i) ==
    /\ Reading
    /\ i \in toClient
    /\ Len(toServer) < MaxQueue
    /\ toClient' = toClient \ {i}
    /\ clientLast' = DataBlock(sentLog[i].pkt)
    /\ toServer' = Append(toServer, AckBytes(DataBlock(sentLog[i].pkt)))
    /\ senders' = Append(senders, remoteAddr)
    /\ UNCHANGED <<outsideVars, engineVars, callVars, deadline, sentLog, histVars>>

\* The client, hearing nothing, sends its last ACK again.
ClientRepeatsAck ==
    /\ Reading
    /\ clientLast >= 0
    /\ faults < MaxFaults
    /\ Len(toServer) < MaxQueue
    /\ toServer' = Append(toServer, AckBytes(clientLast))
    /\ senders' = Append(senders, remoteAddr)
    /\ faults' = faults + 1
    /\ UNCHANGED <<outsideVars, engineVars, callVars, deadline, sentLog, toClient, clientLast,
                   calls, written, callHist, lastResult, readTimeouts, replied>>

\* A DATA packet is lost on its way to the client.
LoseData(i) ==
    /\ Reading
    /\ i \in toClient
    /\ faults < MaxFaults
    /\ toClient' = toClient \ {i}
    /\ faults' = faults + 1
    /\ UNCHANGED <<outsideVars, engineVars, callVars, deadline, sentLog, toServer, senders, clientLast,
                   calls, written, callHist, lastResult, readTimeouts, replied>>

\* A datagram is lost on its way to the session's endpoint.
LoseReply(k) ==
    /\ Reading
    /\ k \in 1..Len(toServer)
    /\ faults < MaxFaults
    /\ toServer' = SubSeq(toServer, 1, k - 1) \o SubSeq(toServer, k + 1, Len(toServer))
    /\ senders' = SubSeq(senders, 1, k - 1) \o SubSeq(senders, k + 1, Len(senders))
    /\ faults' = faults + 1
    /\ UNCHANGED <<outsideVars, engineVars, callVars, deadline, sentLog, toClient, clientLast,
                   calls, written, callHist, lastResult, readTimeouts, replied>>

\* A datagram that is not the client's ACK of a block arrives at the
\* session's endpoint, from the peer's address or from another.
ForeignDatagram(d) ==
    /\ Reading
    /\ faults < MaxFaults
    /\ Len(toServer) < MaxQueue
    /\ toServer' = Append(toServer, d)
    /\ \E a \in Senders : senders' = Append(senders, a)
    /\ faults' = faults + 1
    /\ UNCHANGED <<outsideVars, engineVars, callVars, deadline, sentLog, toClient, clientLast,
                   calls, written, callHist, lastResult, readTimeouts, replied>>

Next ==
    \/ \E n \in ChunkSizes : Write(n)
    \/ Flush
    \/ Close
    \/ SetDeadlineFails
    \/ SendOK
    \/ SendTimeout
    \/ \E e \in TransportErrors \cup {ErrShortWrite} : SendFails(e)
    \/ ReadTimeout
    \/ \E e \in TransportErrors : ReadFails(e)
    \/ RecvError
    \/ RecvDuplicate
    \/ RecvAck
    \/ DeadlineExpires
    \/ \E i \in toClient : ClientReceive(i)
    \/ ClientRepeatsAck
    \/ \E i \in toClient : LoseData(i)
    \/ \E k \in 1..Len(toServer) : LoseReply(k)
    \/ \E d \in ForeignDatagrams : ForeignDatagram(d)

Spec == Init /\ [][Next]_vars

SpecWrap == InitWrap /\ [][Next]_vars

(***************************************************************************)
(* The session over a channel that loses, delays, duplicates and reorders  *)
(* datagrams, with a client that takes the blocks in order: it accepts the *)
(* block after the last one it accepted and answers every DATA packet with *)
(* an ACK of the last block it accepted.  clientLast is that block, -1     *)
(* before the first.  Delay is the time a datagram spends in toClient or   *)
(* toServer; a DATA packet the channel duplicates reaches the client as    *)
(* one it has accepted already, whose answer is a duplicated reply.        *)
(***************************************************************************)
\* The block the client accepts next.
ClientExpects == IF clientLast < 0 THEN 1 ELSE (clientLast + 1) % BlockModulus

\* The client receives the DATA packet i.
ClientAccepts(i) ==
    /\ Reading
    /\ i \in toClient
    /\ Len(toServer) < MaxQueue
    /\ toClient' = toClient \ {i}
    /\ LET last == IF DataBlock(sentLog[i].pkt) = ClientExpects
                   THEN ClientExpects ELSE clientLast
       IN  /\ clientLast' = last
           /\ toServer' = IF last < 0 THEN toServer
                          ELSE Append(toServer, AckBytes(last))
           /\ senders' = IF last < 0 THEN senders
                         ELSE Append(senders, remoteAddr)
    /\ UNCHANGED <<outsideVars, engineVars, callVars, deadline, sentLog, histVars>>

\* The channel disturbs the traffic: faults counts the disturbances.
Disturbance ==
    /\ Reading
    /\ faults < MaxDisturbances
    /\ faults' = faults + 1
    /\ UNCHANGED <<outsideVars, engineVars, callVars, deadline, sentLog, clientLast,
                   calls, written, callHist, lastResult, readTimeouts, replied>>

\* The channel loses a DATA packet.
ChannelLosesData(i) ==
    /\ Disturbance
    /\ i \in toClient
    /\ toClient' = toClient \ {i}
    /\ toServer' = toServer
    /\ senders' = senders

\* The channel loses a reply.
ChannelLosesReply(k) ==
    /\ Disturbance
    /\ k \in 1..Len(toServer)
    /\ toServer' = SubSeq(toServer, 1, k - 1) \o SubSeq(toServer, k + 1, Len(toServer))
    /\ senders' = SubSeq(senders, 1, k - 1) \o SubSeq(senders, k + 1, Len(senders))
    /\ toClient' = toClient

\* The channel duplicates a reply.
ChannelDuplicatesReply(k) ==
    /\ Disturbance
    /\ k \in 1..Len(toServer)
    /\ Len(toServer) < MaxQueue
    /\ toServer' = Append(toServer, toServer[k])
    /\ senders' = Append(senders, senders[k])
    /\ toClient' = toClient

\* The channel lets a reply overtake the one before it.
ChannelReordersReplies(k) ==
    /\ Disturbance
    /\ k \in 1..(Len(toServer) - 1)
    /\ toServer[k] # toServer[k + 1]
    /\ toServer' = [toServer EXCEPT ![k] = toServer[k + 1], ![k + 1] = toServer[k]]
    /\ senders' = [senders EXCEPT ![k] = senders[k + 1], ![k + 1] = senders[k]]
    /\ toClient' = toClient

\* The handler writes and flushes, the transport does not fail but by
\* timing out, and the client sends nothing but ACKs.
NextChannel ==
    \/ \E n \in ChunkSizes : Write(n)
    \/ Flush
    \/ SendOK
    \/ SendTimeout
    \/ ReadTimeout
    \/ RecvDuplicate
    \/ RecvAck
    \/ DeadlineExpires
    \/ \E i \in toClient : ClientAccepts(i)
    \/ \E i \in toClient : ChannelLosesData(i)
    \/ \E k \in 1..Len(toServer) : ChannelLosesReply(k)
    \/ \E k \in 1..Len(toServer) : ChannelDuplicatesReply(k)
    \/ \E k \in 1..Len(toServer) : ChannelReordersReplies(k)

SpecChannel == Init /\ [][NextChannel]_vars

(***************************************************************************)
(* The codec and the netascii functions taken alone: each is applied to    *)
(* one byte slice.                                                         *)
(***************************************************************************)
\* The byte slices passed: every slice of up to MaxBytes bytes of Alphabet,
\* and the requests put together from an opcode, a filename, a mode and a
\* tail, with or without their terminators.
Alphabet == {NUL, opcodeACK, OpcodeError, LF, CR, 97}
ByteSlices == UNION {[1..n -> Alphabet] : n \in 0..MaxBytes}

RequestOpcodes == {<<0, OpcodeRead>>, <<0, OpcodeWrite>>, <<0, opcodeDATA>>, <<1, OpcodeRead>>}
RequestFilenames == {<<>>, <<97>>, <<97, 47, 98>>}
RequestModes ==
    { ModeOctet, ModeNetASCII, <<>>,
      <<79, 67, 84, 69, 84>>,                       \* OCTET
      <<79, 99, 84, 101, 116>>,                     \* OcTet
      <<78, 101, 116, 65, 83, 67, 73, 73>>,         \* NetASCII
      <<110, 101, 116, 97, 115, 99, 105, 196, 176>>, \* netasci, U+0130
      <<111, 99, 116, 101, 196>>,                   \* octe, a lone C4
      <<109, 97, 105, 108>>,                        \* mail
      <<111, 99, 116, 101>>,                        \* octe
      <<111, 99, 116, 101, 116, 116>> }             \* octett
Terminators == {<<>>, <<NUL>>}
RequestTails == {<<>>, <<NUL>>, <<120>>, <<120, NUL>>, <<120, NUL, 49, NUL>>}
RequestSlices ==
    { o \o f \o t1 \o m \o t2 \o tl :
        o \in RequestOpcodes, f \in RequestFilenames, t1 \in Terminators,
        m \in RequestModes, t2 \in Terminators, tl \in RequestTails }

InitCodec ==
    /\ NoSession
    /\ NoServer
    /\ input \in ByteSlices \cup RequestSlices
    /\ fn = "none"
    /\ output = <<>>

Apply(f, result) ==
    /\ fn = "none"
    /\ fn' = f
    /\ output' = result
    /\ UNCHANGED <<sessionVars, serverVars, input>>

ApplyParseRequestPacket == Apply("parseRequestPacket", parseRequestPacket(input))
ApplyParseACKPacket == Apply("parseACKPacket", parseACKPacket(input))
ApplyToNetASCII == Apply("toNetASCII", toNetASCII(input))
ApplyNetASCIIWrite == Apply("netASCIIResponseWriter.Write", netASCIIReplace(input))
ApplyFromNetASCII ==
    \E r \in {fromNetASCII(input), fromNetASCIIReplace(input)} :
        Apply("fromNetASCII", r)
ApplyRoundTrip ==
    \E e \in {toNetASCII(input), netASCIIReplace(input)} :
        \E r \in {fromNetASCII(e), fromNetASCIIReplace(e)} :
            Apply("roundTrip", r)

NextCodec ==
    \/ ApplyParseRequestPacket
    \/ ApplyParseACKPacket
    \/ ApplyToNetASCII
    \/ ApplyNetASCIIWrite
    \/ ApplyFromNetASCII
    \/ ApplyRoundTrip

SpecCodec == InitCodec /\ [][NextCodec]_vars

(***************************************************************************)
(* The dispatcher: Server.Serve, the conn it makes of every datagram, and  *)
(* conn.serve running rotftpd's Handler.  loop is the Serve goroutine:     *)
(* at "ReadFrom" it is blocked in p.ReadFrom, at "go" it holds a datagram  *)
(* of n bytes from addr in the receive buffer sbuf.  conns holds one       *)
(* record per conn.serve goroutine, in the order they were started.  A     *)
(* session's engine is kept by its block counter, the number of            *)
(* datagrams it sent and the place it is blocked at.                       *)
(***************************************************************************)
RequestDatagram(o, f, m) == <<0, o>> \o f \o <<NUL>> \o m \o <<NUL>>

\* The datagrams that arrive at the listening socket: read requests for a
\* file that exists (in either mode) and for one that does not, a write
\* request, a request without its last NUL, and an ACK.
ServerDatagrams ==
    { RequestDatagram(OpcodeRead, <<97>>, ModeOctet),
      RequestDatagram(OpcodeRead, <<97>>, ModeNetASCII),
      RequestDatagram(OpcodeRead, <<98>>, ModeOctet),
      RequestDatagram(OpcodeWrite, <<97>>, ModeOctet),
      <<0, OpcodeRead, 97, NUL>> \o ModeOctet,
      <<0, opcodeACK, 0, 1>> }

RemoteAddrs == {"client1", "client2"}

\* The files of Handler.Directory.
Directory == {<<97>>}

\* The ports the system can assign to a socket bound to port 0.
Ports == 1..MaxConns

\* The part of Serve's receive buffer that a datagram can reach.
ServeBufLen ==
    CHOOSE n \in 0..1500 :
        /\ \E d \in ServerDatagrams : Len(d) = n
        /\ \A d \in ServerDatagrams : Len(d) <= n

NoConn ==
    [remoteAddr |-> "", n |-> 0, array |-> "own", buf |-> <<>>, dgram |-> <<>>,
     pc |-> "serve", req |-> NoRequest, port |-> 0, opened |-> 0, closes |-> 0,
     netASCII |-> FALSE, block |-> 0, sent |-> 0, handlerCalls |-> 0,
     timeouts |-> 0, blockedAtStart |-> 0]

\* The conn that keeps the slice it was given instead of a copy.
newConnSharesBuffer(addr, n, b) ==
    [NoConn EXCEPT !.remoteAddr = addr, !.n = n, !.array = "shared",
                   !.dgram = SubSeq(b, 1, n)]

\* newConn: c.buf is a new array holding a copy of buf[:n].  dgram records
\* the datagram the conn was made of.
newConn(addr, n, b) ==
    [NoConn EXCEPT !.remoteAddr = addr, !.n = n, !.array = "own",
                   !.buf = SubSeq(b, 1, n), !.dgram = SubSeq(b, 1, n)]

\* The bytes c.buf holds now.
ConnBuf(c) ==
    IF conns[c].array = "own" THEN conns[c].buf
    ELSE SubSeq(sbuf, 1, conns[c].n)

\* The ports of the sockets that are open.
OpenPorts == {conns[c].port : c \in {d \in DOMAIN conns : conns[d].opened > conns[d].closes}}

\* filepath.Base of a name without a trailing separator: what follows the
\* last separator.
Base(f) ==
    LET seps == {i \in 1..Len(f) : f[i] = 47}
    IN  IF seps = {} THEN f
        ELSE SubSeq(f, (CHOOSE i \in seps : \A j \in seps : j <= i) + 1, Len(f))

InitServer ==
    /\ NoSession
    /\ NoCodec
    /\ sbuf = [i \in 1..ServeBufLen |-> 0]
    /\ loop = [NoLoop EXCEPT !.pc = "ReadFrom"]
    /\ conns = <<>>

\* The places a session is blocked at inside writeOneBlock's read loop.
AwaitingAck == {"Write.ReadFrom", "Flush.ReadFrom"}

\* The Serve that calls serve without go: it reads again when serve has
\* returned.
ServeReadFromAfterServe(d, a) ==
    /\ loop.pc = "ReadFrom"
    /\ loop.received < MaxConns
    /\ \A c \in DOMAIN conns : conns[c].pc = "done"
    /\ sbuf' = d \o SubSeq(sbuf, Len(d) + 1, Len(sbuf))
    /\ loop' = [loop EXCEPT !.pc = "go", !.n = Len(d), !.addr = a,
                            !.received = @ + 1]
    /\ UNCHANGED <<sessionVars, codecVars, conns>>

\* p.ReadFrom(buf) returns a datagram: its bytes overwrite the front of
\* the receive buffer.
ServeReadFrom(d, a) ==
    /\ loop.pc = "ReadFrom"
    /\ loop.received < MaxConns
    /\ sbuf' = d \o SubSeq(sbuf, Len(d) + 1, Len(sbuf))
    /\ loop' = [loop EXCEPT !.pc = "go", !.n = Len(d), !.addr = a,
                            !.received = @ + 1]
    /\ UNCHANGED <<sessionVars, codecVars, conns>>

\* p.ReadFrom(buf) returns an error: Serve returns it.
ServeReadFromFails ==
    /\ loop.pc = "ReadFrom"
    /\ loop' = [loop EXCEPT !.pc = "returned"]
    /\ UNCHANGED <<sessionVars, codecVars, sbuf, conns>>

\* go s.newConn(addr, n, buf).serve(): newConn runs in the Serve goroutine,
\* the new goroutine starts at serve.  blockedAtStart records how many
\* sessions were blocked in a read at that moment.
ServeGo ==
    /\ loop.pc = "go"
    /\ conns' = Append(conns,
                       [newConn(loop.addr, loop.n, sbuf) EXCEPT !.blockedAtStart =
                           Cardinality({c \in DOMAIN conns : conns[c].pc \in AwaitingAck})])
    /\ loop' = [loop EXCEPT !.pc = "ReadFrom"]
    /\ UNCHANGED <<sessionVars, codecVars, sbuf>>

ConnStep(c, new) ==
    /\ conns' = [conns EXCEPT ![c] = new]
    /\ UNCHANGED <<sessionVars, codecVars, sbuf, loop>>

\* conn.serve that goes on with whatever was parsed.
ConnServeIgnoresError(c) ==
    /\ conns[c].pc = "serve"
    /\ LET r == parseRequest(ConnBuf(c), conns[c].remoteAddr)
       IN  ConnStep(c, [conns[c] EXCEPT !.pc = "newResponse", !.req = r.req])

\* conn.serve up to the call of newResponse: parseRequest, and a silent
\* return when it fails.
ConnServe(c) ==
    /\ conns[c].pc = "serve"
    /\ LET r == parseRequest(ConnBuf(c), conns[c].remoteAddr)
       IN  IF r.err # nil
           THEN ConnStep(c, [conns[c] EXCEPT !.pc = "done"])
           ELSE ConnStep(c, [conns[c] EXCEPT !.pc = "newResponse", !.req = r.req])

\* newResponse binds a socket to a port the system assigns and makes the
\* engine's buffers and counter; conn.serve returns when it fails.
ConnNewResponse(c) ==
    /\ conns[c].pc = "newResponse"
    /\ \/ \E p \in Ports \ OpenPorts :
            ConnStep(c, [conns[c] EXCEPT !.pc = "ServeTFTP", !.port = p,
                                         !.opened = @ + 1, !.block = 0,
                                         !.netASCII = (conns[c].req.Mode = ModeNetASCII)])
       \/ ConnStep(c, [conns[c] EXCEPT !.pc = "done"])

\* Handler.ServeTFTP up to io.Copy: a write request is ignored, and the
\* handler returns when the file cannot be opened or examined.
ServeTFTP(c) ==
    /\ conns[c].pc = "ServeTFTP"
    /\ LET called == [conns[c] EXCEPT !.handlerCalls = @ + 1]
       IN  IF conns[c].req.Opcode = OpcodeWrite
           THEN ConnStep(c, [called EXCEPT !.pc = "done"])
           ELSE IF Base(conns[c].req.Filename) \notin Directory
           THEN ConnStep(c, [called EXCEPT !.pc = "done"])
           ELSE \E stat \in BOOLEAN :
                    ConnStep(c, [called EXCEPT !.pc = IF stat THEN "io.Copy" ELSE "done"])

\* writeOneBlock up to its read loop, called by the Write that io.Copy
\* makes while the file holds another full block: the counter goes up and
\* the DATA packet leaves through the session's socket.
SessionWrite(c) ==
    /\ conns[c].pc = "io.Copy"
    /\ conns[c].block < FullBlocks
    /\ ConnStep(c, [conns[c] EXCEPT !.pc = "Write.ReadFrom", !.block = @ + 1,
                                    !.sent = @ + 1])

\* io.Copy returns: the handler calls Flush.
SessionCopyDone(c) ==
    /\ conns[c].pc = "io.Copy"
    /\ conns[c].block = FullBlocks
    /\ ConnStep(c, [conns[c] EXCEPT !.pc = "Flush"])

\* Flush sends what is left as the last, short block.
SessionFlush(c) ==
    /\ conns[c].pc = "Flush"
    /\ ConnStep(c, [conns[c] EXCEPT !.pc = "Flush.ReadFrom", !.block = @ + 1,
                                    !.sent = @ + 1])

\* The read times out and is issued again.
SessionReadTimeout(c) ==
    /\ conns[c].pc \in AwaitingAck
    /\ conns[c].timeouts < MaxTimeouts
    /\ ConnStep(c, [conns[c] EXCEPT !.timeouts = @ + 1])

\* The ACK of the block arrives: Write goes on, Flush returns nil.
SessionAck(c) ==
    /\ conns[c].pc \in AwaitingAck
    /\ ConnStep(c, [conns[c] EXCEPT !.pc = IF @ = "Write.ReadFrom" THEN "io.Copy"
                                           ELSE "Close"])

\* Write or Flush returns an error (an ERROR packet, an invalid datagram):
\* the handler logs it and returns.
SessionFails(c) ==
    /\ conns[c].pc \in AwaitingAck
    /\ ConnStep(c, [conns[c] EXCEPT !.pc = "done"])

\* The end of ServeTFTP after a transfer: w.Close() closes the socket.
SessionClose(c) ==
    /\ conns[c].pc = "Close"
    /\ ConnStep(c, [conns[c] EXCEPT !.pc = "done", !.closes = @ + 1])

NextServer ==
    \/ \E d \in ServerDatagrams, a \in RemoteAddrs : ServeReadFrom(d, a)
    \/ ServeReadFromFails
    \/ ServeGo
    \/ \E c \in DOMAIN conns : ConnServe(c)
    \/ \E c \in DOMAIN conns : ConnNewResponse(c)
    \/ \E c \in DOMAIN conns : ServeTFTP(c)
    \/ \E c \in DOMAIN conns : SessionWrite(c)
    \/ \E c \in DOMAIN conns : SessionCopyDone(c)
    \/ \E c \in DOMAIN conns : SessionFlush(c)
    \/ \E c \in DOMAIN conns : SessionReadTimeout(c)
    \/ \E c \in DOMAIN conns : SessionAck(c)
    \/ \E c \in DOMAIN conns : SessionFails(c)
    \/ \E c \in DOMAIN conns : SessionClose(c)

SpecServer == InitServer /\ [][NextServer]_vars

(***************************************************************************)
(* The vocabulary of the properties.                                       *)
(***************************************************************************)
\* d is a well-formed ACK datagram: four bytes, opcode 4.
IsAckDatagram(d) == Len(d) = 4 /\ d[1] = 0 /\ d[2] = 4

\* d is a well-formed ERROR datagram: opcode 5, a code, a message, a NUL.
IsErrorDatagram(d) == Len(d) >= 5 /\ d[1] = 0 /\ d[2] = 5 /\ d[Len(d)] = 0

\* This step puts a datagram on the wire; Transmitted is its log entry.
Transmits == Len(sentLog') = Len(sentLog) + 1
Transmitted == sentLog'[Len(sentLog')]

\* This step transmits a block that has not been transmitted before.
FirstTransmission ==
    /\ Transmits
    /\ \A i \in 1..Len(sentLog) : sentLog[i].call # Transmitted.call

\* This step is a ReadFrom that returns the datagram at the head of the queue.
ReadsDatagram ==
    /\ pc = "read"
    /\ toServer # <<>>
    /\ toServer' = Tail(toServer)
    /\ replied'

\* The step before the last transmission was followed by the read of a
\* well-formed ACK.
AckReadSinceTransmission == replied /\ IsAckDatagram(rb)

(***************************************************************************)
(* C1. Stop-and-wait.                                                      *)
(***************************************************************************)
\* Every transmission is of the block of the current invocation, so blocks
\* are first transmitted in the order of their invocations and an earlier
\* block is never transmitted again once a later one has been.
C1_InOrder ==
    Transmits =>
        /\ Transmitted.call = calls
        /\ Transmitted.pkt = wb
        /\ DataBlock(Transmitted.pkt) = Transmitted.call % BlockModulus
        /\ \A i \in 1..Len(sentLog) : sentLog[i].call <= Transmitted.call

\* C1 as claimed: the first transmission of block N+1 happens only after the
\* engine has read, after its latest transmission of block N, a well-formed
\* ACK; blocks are transmitted in order and one at a time.
C1_StopAndWaitAlways ==
    [][ /\ C1_InOrder
        /\ (FirstTransmission /\ lastResult # NoResult) =>
              /\ sentLog # <<>>
              /\ sentLog[Len(sentLog)].call = Transmitted.call - 1
              /\ AckReadSinceTransmission ]_vars

\* C1 as amended: the first transmission of block N+1 happens only after
\* send-one-block for block N has returned, and unless it returned an error
\* to the caller, only after the engine has read, after its latest
\* transmission of block N, a well-formed ACK; blocks are transmitted in
\* order and one at a time.
C1_StopAndWait ==
    [][ /\ C1_InOrder
        /\ (FirstTransmission /\ lastResult # NoResult) =>
              /\ lastResult.call = Transmitted.call - 1
              /\ lastResult.err = nil =>
                    /\ sentLog # <<>>
                    /\ sentLog[Len(sentLog)].call = Transmitted.call - 1
                    /\ AckReadSinceTransmission ]_vars

\* Block N+1 is on the wire for the first time, after the ACK of block N.
C1_Witness ==
    /\ Len(sentLog) = 2
    /\ sentLog[1].call = 1
    /\ sentLog[2].call = 2
    /\ lastResult = [call |-> 1, err |-> nil]
    /\ rb = AckBytes(1)
    /\ pc = "read"

(***************************************************************************)
(* C2. Duplicate ACK.                                                      *)
(***************************************************************************)
\* This step reads an ACK for the block before the outstanding one, the
\* subtraction taken modulo 65536.
ReadsDuplicateAck ==
    /\ ReadsDatagram
    /\ IsAckDatagram(Head(toServer))
    /\ Uint16(Head(toServer), 3) = (block + BlockModulus - 1) % BlockModulus

\* This step transmits the block of the previous transmission again.
Retransmits ==
    /\ Transmits
    /\ sentLog # <<>>
    /\ sentLog[Len(sentLog)].call = Transmitted.call

\* C2: reading an ACK for block N-1 (mod 65536) while block N is outstanding
\* sends the engine back to the send of block N: the counter, the buffer and
\* the framed packet are untouched and the step does not return; every
\* retransmission is byte-identical to the transmission before it; and a
\* step returns a result of the peer's only on reading a datagram that is
\* not such an ACK.
C2_DuplicateAck ==
    [][ /\ ReadsDuplicateAck =>
              /\ pc' = "send"
              /\ UNCHANGED <<block, buf, wb, calls, op, remaining, sentLog,
                             lastCall, lastResult>>
        /\ Retransmits =>
              /\ Transmitted.pkt = sentLog[Len(sentLog)].pkt
              /\ UNCHANGED <<block, buf, wb>>
        /\ (lastResult' # lastResult /\ lastResult'.err.type \in {"nil", "ErrorPacket"}) =>
              /\ ReadsDatagram
              /\ ~ReadsDuplicateAck ]_vars

\* Block 0 is outstanding, ACK 65535 was read and block 0 went out again.
C2_Witness ==
    /\ block = 0
    /\ calls = BlockModulus
    /\ rb = AckBytes(BlockModulus - 1)
    /\ pc = "read"
    /\ Len(sentLog) >= 2
    /\ sentLog[Len(sentLog)].call = calls
    /\ sentLog[Len(sentLog) - 1].call = calls
    /\ sentLog[Len(sentLog)].pkt = sentLog[Len(sentLog) - 1].pkt

(***************************************************************************)
(* C4. Block numbering.                                                    *)
(***************************************************************************)
\* C4: the counter is the number of send-one-block calls modulo 65536 (0
\* before the first); a call increments it once, before the packet is framed
\* and before anything is sent; nothing else changes it, a retransmission
\* included; every packet carries the counter's value; and among fewer than
\* 65536 consecutive blocks two packets carry the same number only if they
\* are transmissions of the same block.
C4_BlockNumbering ==
    [][ /\ block' = calls' % BlockModulus
        /\ calls' # calls =>
              /\ calls' = calls + 1
              /\ block' = (block + 1) % BlockModulus
              /\ Uint16(wb', 3) = block'
              /\ pc' = "send"
              /\ sentLog' = sentLog
        /\ calls' = calls => block' = block
        /\ Transmits =>
              /\ Uint16(Transmitted.pkt, 3) = block
              /\ block' = block
              /\ \A i \in 1..Len(sentLog) :
                    Uint16(sentLog[i].pkt, 3) = Uint16(Transmitted.pkt, 3)
                        <=> sentLog[i].call = Transmitted.call ]_vars

\* The block after block 65535 has gone out as block 0.
C4_Witness ==
    /\ Len(sentLog) >= 2
    /\ Uint16(sentLog[Len(sentLog) - 1].pkt, 3) = BlockModulus - 1
    /\ Uint16(sentLog[Len(sentLog)].pkt, 3) = 0
    /\ sentLog[Len(sentLog)].call = sentLog[Len(sentLog) - 1].call + 1
    /\ block = 0

(***************************************************************************)
(* C3. Complete transfer.                                                  *)
(***************************************************************************)
\* The DATA packet that block i of a transfer of the first l bytes of the
\* handler's data is expected to be.
ExpectedPacket(i, l) ==
    <<0, 3, i \div 256, i % 256>>
        \o SubSeq(DataChunk(0, l), (i - 1) * blockSize + 1, Min(i * blockSize, l))

\* The handler's Writes and its one Flush have all returned nil and nothing
\* was lost, repeated or injected on the way.
CleanTransferDone ==
    /\ ~netASCII
    /\ faults = 0
    /\ ~writeFailed
    /\ numFlushes = 1
    /\ lastCall.op = "Flush"
    /\ lastCall.done
    /\ lastCall.err = nil

\* C3: in octet mode, when L bytes were written in any chunking and the one
\* Flush after them has returned against a client that ACKs each block by
\* its number over a channel that loses nothing, exactly floor(L/512)+1 DATA
\* packets were sent, numbered 1, 2, ..., the i-th carrying bytes
\* 512(i-1)+1 .. min(512 i, L) of the data, and none after them.
C3_CompleteTransfer ==
    CleanTransferDone =>
        /\ Len(sentLog) = written \div blockSize + 1
        /\ \A i \in 1..Len(sentLog) : sentLog[i].pkt = ExpectedPacket(i, written)
        /\ Len(sentLog[Len(sentLog)].pkt) = 4 + (written % blockSize)
        /\ pc = "idle"
        /\ toClient = {}

\* 1024 bytes in two Writes and a Flush: blocks 1 and 2 and an empty block 3.
C3_Witness ==
    /\ CleanTransferDone
    /\ written = 1024
    /\ numWrites = 2
    /\ Len(sentLog) = 3
    /\ Len(sentLog[3].pkt) = 4

(***************************************************************************)
(* C5. Write with insufficient data.                                       *)
(***************************************************************************)
\* This step is a call of Write; WriteInput is the slice passed.
WriteCalled == numWrites' = numWrites + 1
WriteInput == DataChunk(written, written' - written)

\* The length of p once transcoded for the session's mode: in netascii mode
\* every CR and every LF takes one byte more.
TranscodedLen(p) ==
    Len(p) + IF netASCII
             THEN Cardinality({i \in 1..Len(p) : p[i] \in {CR, LF}})
             ELSE 0

\* C5: a Write after whose append fewer than 512 bytes are buffered returns
\* (len(input), nil) at once: no datagram is sent, the endpoint is not read,
\* the deadline is not armed, the block counter and the framed packet are
\* unchanged, and the buffer is the old buffer followed by the transcoded
\* input.
C5_WriteBuffersOnly ==
    [][ (WriteCalled /\ Len(buf) + TranscodedLen(WriteInput) < blockSize) =>
            /\ lastCall'.op = "Write"
            /\ lastCall'.done
            /\ lastCall'.n = Len(WriteInput)
            /\ lastCall'.err = nil
            /\ pc' = "idle"
            /\ UNCHANGED <<block, wb, rb, calls, lastResult, netVars>>
            /\ Len(buf') = Len(buf) + TranscodedLen(WriteInput)
            /\ SubSeq(buf', 1, Len(buf)) = buf
            /\ ~netASCII => buf' = buf \o WriteInput ]_vars

\* Two short netascii Writes have only filled the buffer.
C5_Witness ==
    /\ netASCII
    /\ numWrites = 2
    /\ lastCall.op = "Write"
    /\ lastCall.done
    /\ lastCall.err = nil
    /\ sentLog = <<>>
    /\ calls = 0
    /\ Len(buf) = lastCall.buffered
    /\ Len(buf) > written

(***************************************************************************)
(* C6. Write with full blocks.                                             *)
(***************************************************************************)
\* C6: a Write that found B >= 512 bytes buffered and returned nil has made
\* exactly floor(B/512) send-one-block calls and left B mod 512 bytes, fewer
\* than 512, in the buffer; while it runs, the calls made and the calls to
\* come add up to floor(B/512); and every DATA packet sent from within a
\* Write carries exactly 512 bytes.
C6_WriteFullBlocks ==
    /\ (lastCall.op = "Write" /\ lastCall.done /\ lastCall.err = nil) =>
          /\ calls - lastCall.first + 1 = lastCall.buffered \div blockSize
          /\ Len(buf) = lastCall.buffered % blockSize
          /\ Len(buf) < blockSize
    /\ (op = "Write" /\ pc # "idle") =>
          /\ lastCall.buffered >= blockSize
          /\ (calls - lastCall.first + 1) + remaining = lastCall.buffered \div blockSize
          /\ Len(buf) = lastCall.buffered - (calls - lastCall.first + 1) * blockSize
    /\ \A i \in 1..Len(sentLog) :
          sentLog[i].op = "Write" => Len(sentLog[i].pkt) = 4 + blockSize

\* A Write that found 1112 bytes sent two blocks and kept 88 bytes.
C6_Witness ==
    /\ lastCall.op = "Write"
    /\ lastCall.done
    /\ lastCall.err = nil
    /\ lastCall.buffered = 2 * blockSize + 88
    /\ calls = 2
    /\ Len(sentLog) = 2
    /\ Len(buf) = 88

(***************************************************************************)
(* C7. Flush.                                                              *)
(***************************************************************************)
\* This step is a call of Flush.
FlushCalled == numFlushes' = numFlushes + 1

\* C7: a Flush makes exactly one send-one-block call: the counter is
\* incremented, the packet framed from the first min(buffered, 512) bytes of
\* the buffer, which leave the buffer, and the send begun, also when the
\* buffer is empty; and when no Write before it returned an error, the
\* payload is shorter than 512 bytes.
C7_Flush ==
    [][ /\ FlushCalled =>
              /\ calls' = calls + 1
              /\ block' = (block + 1) % BlockModulus
              /\ wb' = <<0, 3, block' \div 256, block' % 256>>
                          \o SubSeq(buf, 1, Min(Len(buf), blockSize))
              /\ buf' = SubSeq(buf, Min(Len(buf), blockSize) + 1, Len(buf))
              /\ pc' = "send"
              /\ ~writeFailed => Len(wb') < 4 + blockSize
        /\ lastCall'.op = "Flush" => calls' = lastCall'.first
        /\ (Transmits /\ Transmitted.op = "Flush") =>
              /\ Transmitted.call = lastCall.first
              /\ ~writeFailed => Len(Transmitted.pkt) < 4 + blockSize ]_vars

\* A Flush on an empty buffer has sent a DATA packet without payload, and the
\* client has acknowledged it.
C7_Witness ==
    /\ lastCall.op = "Flush"
    /\ lastCall.done
    /\ lastCall.err = nil
    /\ lastCall.buffered = 0
    /\ sentLog # <<>>
    /\ sentLog[Len(sentLog)].op = "Flush"
    /\ Len(sentLog[Len(sentLog)].pkt) = 4

(***************************************************************************)
(* C8. Peer ERROR is terminal.                                             *)
(***************************************************************************)
\* The ErrorPacket that the well-formed ERROR datagram d stands for.
PeerError(d) ==
    [type |-> "ErrorPacket", code |-> d[3] * 256 + d[4],
     msg |-> SubSeq(d, 5, Len(d) - 1)]

\* This step reads a well-formed ERROR datagram.
ReadsError == ReadsDatagram /\ IsErrorDatagram(Head(toServer))

\* C8: on reading a well-formed ERROR datagram, send-one-block returns an
\* ErrorPacket with exactly the datagram's code and message, the enclosing
\* Write or Flush returns that error, and nothing is sent; and no block is
\* transmitted once its send-one-block call has returned.
C8_PeerErrorTerminal ==
    [][ /\ ReadsError =>
              /\ lastResult' = [call |-> calls, err |-> PeerError(Head(toServer))]
              /\ lastCall' = [lastCall EXCEPT !.done = TRUE,
                                              !.err = PeerError(Head(toServer))]
              /\ pc' = "idle"
              /\ UNCHANGED <<block, buf, wb, calls, sentLog, toClient>>
        /\ (Transmits /\ lastResult # NoResult) =>
              Transmitted.call > lastResult.call ]_vars

\* A Write has returned the peer's ERROR 3 "abc".
C8_Witness ==
    /\ lastResult.err = [type |-> "ErrorPacket", code |-> 3, msg |-> <<97, 98, 99>>]
    /\ lastResult.call = calls
    /\ lastCall.op = "Write"
    /\ lastCall.done
    /\ lastCall.err = lastResult.err
    /\ pc = "idle"
    /\ sentLog[Len(sentLog)].call = calls

(***************************************************************************)
(* C9. The result of Write.                                                *)
(***************************************************************************)
\* This step is a return of send-one-block with an error inside a Write.
WriteStepFails ==
    /\ op = "Write"
    /\ lastResult' # lastResult
    /\ lastResult'.err # nil

\* C9: the byte count of a Write is the length of the slice it was passed,
\* in both modes, from the call to the return, whatever happens in between;
\* and when a send-one-block call inside a Write returns an error, the Write
\* returns that error at once, with that count, and makes no further call.
C9_WriteResult ==
    [][ /\ WriteCalled =>
              /\ lastCall'.op = "Write"
              /\ lastCall'.n = written' - written
        /\ (~WriteCalled /\ lastCall.op = "Write" /\ lastCall'.op = "Write") =>
              lastCall'.n = lastCall.n
        /\ WriteStepFails =>
              /\ pc' = "idle"
              /\ lastCall' = [lastCall EXCEPT !.done = TRUE, !.err = lastResult'.err]
              /\ lastResult'.call = calls
              /\ UNCHANGED <<block, buf, wb, calls, sentLog>> ]_vars

\* A netascii Write of 1024 bytes has failed at its first block: it returned
\* 1024 and the error, and left the other full blocks in the buffer.
C9_Witness ==
    /\ netASCII
    /\ lastCall.op = "Write"
    /\ lastCall.done
    /\ lastCall.err # nil
    /\ lastCall.err = lastResult.err
    /\ lastCall.len = 1024
    /\ lastCall.n = 1024
    /\ lastCall.buffered > 1024
    /\ calls = lastCall.first
    /\ Len(buf) >= blockSize

(***************************************************************************)
(* C10. Timeout-driven retransmission.                                     *)
(***************************************************************************)
\* This step is a read that fails with a timeout: the deadline armed before
\* the send has passed and no datagram was received.
ReadTimesOut ==
    /\ pc = "read"
    /\ deadline = "expired"
    /\ readTimeouts' > readTimeouts

SendTimesOut ==
    /\ pc = "send"
    /\ ~closed
    /\ sentLog' = sentLog
    /\ faults' = faults

\* C11: a timeout at the send or at the read leaves send-one-block where it
\* is, without a result and with the block, the packet and the buffer
\* untouched, however many timeouts came before; so send-one-block returns
\* only on reading a datagram or on a transport error that is not a timeout,
\* and with a silent peer and a transport that only times out it never does.
C11_UnboundedRetry ==
    [][ /\ ReadTimesOut =>
              /\ pc' = "read"
              /\ UNCHANGED <<lastResult, lastCall, calls, block, buf, wb, sentLog>>
        /\ SendTimesOut =>
              /\ pc' = "send"
              /\ UNCHANGED <<lastResult, lastCall, calls, block, buf, wb>>
        /\ lastResult' # lastResult =>
              \/ ReadsDatagram
              \/ faults' = faults + 1
              \/ closed ]_vars

\* The block was lost, the peer is silent, and after as many timeouts as
\* are counted the engine is still reading.
C11_Witness ==
    /\ pc = "read"
    /\ deadline = "expired"
    /\ readTimeouts = MaxCounted
    /\ toClient = {}
    /\ toServer = <<>>
    /\ lastCall.done = FALSE
    /\ lastResult = NoResult

(***************************************************************************)
(* C22. Lenient ACK acceptance.                                            *)
(***************************************************************************)
\* This step reads a well-formed ACK.
ReadsAck == ReadsDatagram /\ IsAckDatagram(Head(toServer))

\* C22: on reading a well-formed ACK whose number is not that of the block
\* before the outstanding one (mod 65536), whether it is the outstanding
\* block's number or any other, send-one-block returns nil for the
\* outstanding block: a Write with blocks to go moves on to the next block
\* number, and otherwise the Write or Flush returns nil; and the read of a
\* well-formed ACK never makes send-one-block return an error.
C22_LenientAck ==
    [][ /\ (ReadsAck /\ ~ReadsDuplicateAck) =>
              /\ lastResult' = [call |-> calls, err |-> nil]
              /\ sentLog' = sentLog
              /\ IF op = "Write" /\ remaining > 0
                 THEN /\ calls' = calls + 1
                      /\ block' = (block + 1) % BlockModulus
                      /\ Uint16(wb', 3) = block'
                      /\ pc' = "send"
                 ELSE /\ pc' = "idle"
                      /\ block' = block
                      /\ lastCall' = [lastCall EXCEPT !.done = TRUE]
                      /\ lastCall'.err = nil
        /\ ReadsAck => (lastResult' = lastResult \/ lastResult'.err = nil) ]_vars

\* Block 65535 was outstanding and an ACK for block 1, which is ahead of
\* it, was read: the Write went on to block 0.
C22_Witness ==
    /\ rb = AckBytes(1)
    /\ lastResult = [call |-> BlockModulus - 1, err |-> nil]
    /\ calls = BlockModulus
    /\ block = 0
    /\ op = "Write"
    /\ clientLast # 1

(***************************************************************************)
(* C23. No resend while waiting.                                           *)
(***************************************************************************)
\* The engine comes to the send of the block it is already at.
BackToSend == pc # "send" /\ pc' = "send" /\ calls' = calls

\* C23: a read that times out is followed by another read: nothing is sent
\* and the engine does not go back to the send.  The engine comes back to
\* the send of the outstanding block only on reading a duplicate ACK, and
\* stays at it on a send that times out; so every transmission of a block
\* after its first follows the read, since the transmission before it, of a
\* duplicate ACK, and the send attempts of a block number one for the call,
\* one for each send timeout and one for each duplicate ACK read.
C23_NoResendWhileWaiting ==
    [][ /\ ReadTimesOut =>
              /\ pc' = "read"
              /\ UNCHANGED <<sentLog, toClient, block, wb, calls, deadline>>
        /\ BackToSend => ReadsDuplicateAck
        /\ (pc = "send" /\ pc' = "send" /\ calls' = calls) => (SendTimesOut \/ closed' # closed)
        /\ (Transmits /\ ~FirstTransmission) =>
              /\ Retransmits
              /\ replied
              /\ rb = AckBytes((block + BlockModulus - 1) % BlockModulus) ]_vars

\* Block 1 went out once and is still on its way; the reads have timed out
\* as often as is counted and the block was not sent again.
C23_Witness ==
    /\ pc = "read"
    /\ deadline = "expired"
    /\ readTimeouts = MaxCounted
    /\ Len(sentLog) = 1
    /\ toClient = {1}
    /\ calls = 1
    /\ faults = 0

(***************************************************************************)
(* C24. Send-side outcomes.                                                *)
(***************************************************************************)
\* This step is a send attempt that meets a transport error other than a
\* timeout, or a short write.
SendMeetsError == pc = "send" /\ ~closed /\ faults' = faults + 1

\* C24: a send attempt is made with the deadline armed; one that times out
\* leaves the engine at the send with the same packet and block number; one
\* that meets another transport error or writes short, and a deadline that
\* cannot be armed, make send-one-block return that error at once, the
\* enclosing call with it, with nothing sent and nothing read; and
\* send-one-block never returns nil from the send side.
C24_SendOutcomes ==
    [][ /\ (pc = "send" /\ ~closed) => deadline' = "armed"
        /\ Transmits => (pc = "send" /\ ~closed /\ Transmitted.pkt = wb /\ pc' = "read")
        /\ SendTimesOut =>
              /\ pc' = "send"
              /\ UNCHANGED <<block, wb, buf, calls, lastResult, lastCall>>
        /\ (SendMeetsError \/ (pc = "send" /\ closed)) =>
              /\ lastResult'.call = calls
              /\ lastResult'.err \in
                    IF closed THEN {errClosed} ELSE {errOpError, errOther, ErrShortWrite}
              /\ lastCall' = [lastCall EXCEPT !.done = TRUE, !.err = lastResult'.err]
              /\ pc' = "idle"
              /\ UNCHANGED <<sentLog, toClient, toServer, rb, block, wb, buf, calls>>
        /\ (pc = "send" /\ lastResult' # lastResult) => lastResult'.err # nil ]_vars

\* The first send of a Write wrote short: the Write returned the short-write
\* error, nothing is on the wire and nothing was read.
C24_Witness ==
    /\ lastResult = [call |-> 1, err |-> ErrShortWrite]
    /\ lastCall.op = "Write"
    /\ lastCall.done
    /\ lastCall.err = ErrShortWrite
    /\ deadline = "armed"
    /\ sentLog = <<>>
    /\ rb = <<>>
    /\ pc = "idle"

(***************************************************************************)
(* C25. Malformed reply is fatal.                                          *)
(***************************************************************************)
\* This step reads a datagram that is neither a well-formed ACK nor a
\* well-formed ERROR.
ReadsMalformed ==
    /\ ReadsDatagram
    /\ ~IsAckDatagram(Head(toServer))
    /\ ~IsErrorDatagram(Head(toServer))

\* C25: on reading a datagram that is neither a well-formed ACK nor a
\* well-formed ERROR, send-one-block returns the codec's error at once (the
\* invalid-ACK error below four bytes, the invalid-ERROR error otherwise)
\* and the enclosing Write or Flush returns it: the block is not sent again
\* and the engine reads no further.
C25_MalformedFatal ==
    [][ ReadsMalformed =>
            /\ lastResult' =
                  [call |-> calls,
                   err |-> IF Len(Head(toServer)) < 4 THEN errInvalidACKPacket
                           ELSE errInvalidERRORPacket]
            /\ lastCall' = [lastCall EXCEPT !.done = TRUE, !.err = lastResult'.err]
            /\ pc' = "idle"
            /\ UNCHANGED <<sentLog, toClient, block, buf, wb, calls>> ]_vars

\* An ACK with a byte too many was read while block 1 was outstanding and
\* the Write returned the invalid-ERROR error.
C25_Witness ==
    /\ rb = <<0, 4, 0, 1, 0>>
    /\ lastResult = [call |-> 1, err |-> errInvalidERRORPacket]
    /\ lastCall.op = "Write"
    /\ lastCall.done
    /\ lastCall.err = errInvalidERRORPacket
    /\ pc = "idle"
    /\ Len(sentLog) = 1

(***************************************************************************)
(* C27. Late reply.                                                        *)
(***************************************************************************)
\* The pending ReadFrom can return the datagram at the head of the queue.
ReadCanReturnDatagram == ENABLED (RecvAck \/ RecvDuplicate \/ RecvError)

\* C27: a datagram that is at the endpoint after one or more reads of the
\* outstanding block have timed out is received by the read that is
\* pending.
C27_LateReplyConsumed ==
    (pc = "read" /\ readTimeouts > 0 /\ toServer # <<>>) => ReadCanReturnDatagram

(***************************************************************************)
(* C28. Delivery over an unreliable channel.                               *)
(***************************************************************************)
\* The blocks the client has accepted: it accepts them in order from 1.
ClientAccepted == IF clientLast < 0 THEN 0 ELSE clientLast

\* Every Write and the Flush after them have returned nil.
TransferReturned ==
    /\ ~writeFailed
    /\ numFlushes = 1
    /\ lastCall.op = "Flush"
    /\ lastCall.done
    /\ lastCall.err = nil

\* C28: the engine is never more than one block ahead of the client, and
\* when every Write and the Flush have returned nil the client has accepted
\* every block of the transfer.
C28_Delivery ==
    /\ calls <= ClientAccepted + 1
    /\ TransferReturned => ClientAccepted = calls

(***************************************************************************)
(* C29. Chunking independence of transcoding.                              *)
(***************************************************************************)
\* The data bytes of a DATA packet.
Payload(pkt) == SubSeq(pkt, 5, Len(pkt))

\* sentLog[i] is the first transmission of its block.
IsFirstSend(i) == \A j \in 1..(i - 1) : sentLog[j].call # sentLog[i].call

\* The payloads of the first i transmissions, each block taken once.
RECURSIVE SentStream(_)
SentStream(i) ==
    IF i = 0 THEN <<>>
    ELSE SentStream(i - 1)
            \o (IF IsFirstSend(i) THEN Payload(sentLog[i].pkt) ELSE <<>>)

\* The blocks framed but never transmitted.
Unsent == {c \in 1..calls : \A i \in 1..Len(sentLog) : sentLog[i].call # c}

\* The bytes the session has put or will put in DATA payloads: those of the
\* blocks transmitted, those of the block framed last when it has not been
\* transmitted, and those still buffered.
PayloadStream ==
    SentStream(Len(sentLog))
        \o (IF calls \in Unsent THEN Payload(wb) ELSE <<>>)
        \o buf

\* The handler's data up to now.
WrittenSoFar == DataChunk(0, written)

\* The byte counts the handler can have written after at most k Writes.
RECURSIVE WrittenTotals(_)
WrittenTotals(k) ==
    IF k = 0 THEN {0}
    ELSE WrittenTotals(k - 1)
            \cup {t + n : t \in WrittenTotals(k - 1), n \in ChunkSizes}

\* toNetASCII of the handler's whole data, for each count it can have
\* written: the encoding of the concatenation of the Writes' inputs.
EncodingOfWritten ==
    [t \in WrittenTotals(MaxWrites) |-> toNetASCII(DataChunk(0, t))]

\* In a netascii session where no block before the last was given up
\* untransmitted, the payload stream is the encoding of all bytes written.
StreamIsEncoding ==
    (netASCII /\ Unsent \subseteq {calls}) =>
        PayloadStream = EncodingOfWritten[written]

\* A Write in a netascii session appends the encoding of its input, and the
\* encoding of the data with the input is the encoding of the data before
\* followed by that of the input, for either encoder.
WriteAppendsEncoding ==
    (WriteCalled /\ netASCII) =>
        \A tp \in Transcoded(WriteInput) :
            EncodingOfWritten[written'] = EncodingOfWritten[written] \o tp

\* C29: Encode(a ++ b) = Encode(a) ++ Encode(b) for the data written before
\* a Write and the input of that Write, and in netascii mode the bytes put in
\* DATA payloads and the bytes still buffered are together the encoding of
\* the concatenation of all bytes written, however the data was split across
\* Writes and wherever the block boundaries fall.
C29_ChunkingIndependence ==
    /\ []StreamIsEncoding
    /\ [][WriteAppendsEncoding]_vars

\* A Write of 1024 bytes ending in a CR and a second Write beginning with an
\* LF: the CR NUL and the CR LF of the two are in different blocks' data or
\* the buffer, and three blocks have gone out.
C29_Witness ==
    /\ netASCII
    /\ numWrites = 2
    /\ written > 1024
    /\ DataChunk(0, written)[1024] = CR
    /\ DataChunk(0, written)[1025] = LF
    /\ Unsent = {}
    /\ Len(SentStream(Len(sentLog))) >= 3 * blockSize
    /\ PayloadStream = toNetASCII(WrittenSoFar)
    /\ SubSeq(PayloadStream, 1608, 1611) = <<CR, NUL, CR, LF>>

(***************************************************************************)
(* C30. No rollback on failure.                                            *)
(***************************************************************************)
\* This step is a return of send-one-block with an error, in a Write or in
\* the Flush.
BlockFails ==
    /\ lastResult' # lastResult
    /\ lastResult'.err # nil

\* This step is the head of send-one-block: a block is framed.
Frames == calls' = calls + 1

\* What the call made in this step, if one is made, appends to the buffer.
Appended == IF WriteCalled THEN Transcoded(WriteInput) ELSE {<<>>}

\* C30: when send-one-block fails for block N the call returns with the
\* counter still N and the buffer as framing left it, without the bytes of
\* block N; every block, the one after a failed block too, is numbered one
\* more than the counter and framed from the front of what is buffered then,
\* which it removes; and only the block framed last is ever transmitted, so
\* the bytes of a failed block are not sent again by a later call.
C30_NoRollback ==
    [][ /\ BlockFails =>
              /\ lastResult'.call = calls
              /\ pc' = "idle"
              /\ UNCHANGED <<block, calls, buf, wb>>
        /\ Frames =>
              \E tp \in Appended :
                  /\ block' = (block + 1) % BlockModulus
                  /\ wb' = DataPacket(block', BufNext(buf \o tp, blockSize))
                  /\ buf' = BufRest(buf \o tp, blockSize)
        /\ Transmits =>
              /\ Transmitted.call = calls
              /\ Transmitted.pkt = wb ]_vars

\* An octet Write of 1024 bytes has failed at the send of block 1, and the
\* Flush after it has sent the second 512 bytes as block 2: block 1 was
\* never transmitted.
C30_Witness ==
    /\ ~netASCII
    /\ written = 1024
    /\ lastResult.call = 1
    /\ lastResult.err # nil
    /\ calls = 2
    /\ block = 2
    /\ lastCall.op = "Flush"
    /\ Len(sentLog) = 1
    /\ sentLog[1].call = 2
    /\ sentLog[1].pkt = DataPacket(2, SubSeq(DataChunk(0, 1024), 513, 1024))
    /\ buf = <<>>

(***************************************************************************)
(* C31. No sender check on replies.                                        *)
(***************************************************************************)
\* This step is a ReadFrom that returns a datagram sent from the address a.
ReadsFrom(a) == ReadsDatagram /\ Head(senders) = a

\* What parseACKPacket makes of the datagram at the head of the queue.
HeadParsed == parseACKPacket(ReadInto(Head(toServer)))

\* send-one-block returns e in this step: the call returns it, or, in a
\* Write with blocks left to send and no error, the next block is framed.
BlockReturns(e) ==
    /\ lastResult' = [call |-> calls, err |-> e]
    /\ IF op = "Write" /\ e = nil /\ remaining > 0
       THEN /\ calls' = calls + 1
            /\ block' = (block + 1) % BlockModulus
            /\ pc' = "send"
       ELSE /\ pc' = "idle"
            /\ lastCall'.done
            /\ lastCall'.err = e
            /\ UNCHANGED <<block, wb, buf, calls>>

\* C31: a datagram read on the session's endpoint is processed by its bytes
\* alone, whatever address it came from, the peer's or another: a datagram
\* that is not a well-formed ACK ends send-one-block with the ERROR packet
\* or the codec's error, an ACK of the block before the outstanding one
\* sends the outstanding block again, and any other ACK ends send-one-block
\* without error.
C31_NoSenderCheck ==
    [][ \A a \in Senders :
            ReadsFrom(a) =>
                /\ rb' = ReadInto(Head(toServer))
                /\ fromAddr' = a
                /\ IF HeadParsed.err # nil
                   THEN BlockReturns(HeadParsed.err)
                   ELSE IF HeadParsed.Block = PrevBlock(block)
                   THEN /\ pc' = "send"
                        /\ UNCHANGED <<block, wb, buf, calls, lastResult, lastCall>>
                   ELSE BlockReturns(nil) ]_vars

\* An ERROR packet from an address that is not the peer's has ended the
\* Flush of a session whose block 1 the client had not yet acknowledged.
C31_Witness ==
    /\ fromAddr = otherAddr
    /\ IsErrorDatagram(rb)
    /\ lastResult = [call |-> calls, err |-> parseACKPacket(rb).err]
    /\ lastResult.err.type = "ErrorPacket"
    /\ lastCall.op = "Flush"
    /\ lastCall.done
    /\ lastCall.err = lastResult.err
    /\ pc = "idle"
    /\ clientLast < 0

(***************************************************************************)
(* C16. ParseRequest.                                                      *)
(***************************************************************************)
\* The position of the first NUL of b at or after position i, 0 if none.
FirstNUL(b, i) ==
    IF \E k \in i..Len(b) : b[k] = NUL
    THEN CHOOSE k \in i..Len(b) : b[k] = NUL /\ \A j \in i..(k - 1) : b[j] # NUL
    ELSE 0

\* b is a request as the claim describes one: at least 4 bytes, opcode 1 or
\* 2, a NUL at or after offset 2, a second NUL after it, a mode between them
\* that is netascii or octet once lowercased, and NUL as the last byte.
WellFormedRequest(b) ==
    /\ Len(b) >= 4
    /\ b[1] = 0
    /\ b[2] \in {1, 2}
    /\ FirstNUL(b, 3) # 0
    /\ FirstNUL(b, FirstNUL(b, 3) + 1) # 0
    /\ ToLower(SubSeq(b, FirstNUL(b, 3) + 1, FirstNUL(b, FirstNUL(b, 3) + 1) - 1))
          \in {ModeNetASCII, ModeOctet}
    /\ b[Len(b)] = NUL

\* C16: for every byte slice parseRequestPacket returns a packet or the
\* invalid-request error; it returns a packet exactly for the well-formed
\* requests, with the opcode, the bytes before the first NUL as the filename
\* and the lowercased mode.
C16_ParseRequest ==
    fn = "parseRequestPacket" =>
        IF WellFormedRequest(input)
        THEN /\ output.err = nil
             /\ output.pkt.Opcode = input[2]
             /\ output.pkt.Filename = SubSeq(input, 3, FirstNUL(input, 3) - 1)
             /\ output.pkt.Mode \in {ModeNetASCII, ModeOctet}
             /\ output.pkt.Mode =
                   ToLower(SubSeq(input, FirstNUL(input, 3) + 1,
                                  FirstNUL(input, FirstNUL(input, 3) + 1) - 1))
        ELSE output = [pkt |-> NoPacket, err |-> Err("errInvalidRequestPacket")]

\* A read request with an empty filename, the mode in mixed case and bytes
\* after the mode's terminator has been accepted.
C16_Witness ==
    /\ fn = "parseRequestPacket"
    /\ input = <<0, 1, 0, 79, 99, 84, 101, 116, 0, 120, 0>>
    /\ output = [pkt |-> [Opcode |-> 1, Filename |-> <<>>, Mode |-> ModeOctet], err |-> nil]

(***************************************************************************)
(* C26. Bytes after the mode.                                              *)
(***************************************************************************)
\* The position of the NUL that ends the mode of b, 0 if there is none.
ModeEnd(b) == IF FirstNUL(b, 3) = 0 THEN 0 ELSE FirstNUL(b, FirstNUL(b, 3) + 1)

\* b holds an opcode, a filename, a NUL, a mode and a NUL, and further
\* bytes after them.
HasTail(b) == Len(b) >= 4 /\ ModeEnd(b) # 0 /\ ModeEnd(b) < Len(b)

\* C26 as claimed: a request with bytes after the NUL that ends its mode is
\* rejected as an invalid request.
C26_NoOptions ==
    (fn = "parseRequestPacket" /\ HasTail(input)) => output.err # nil

\* C26 as amended: the bytes after the NUL that ends the mode are not
\* examined but for the last of them: a request with such bytes is rejected
\* when its last byte is not NUL, and otherwise parsed as the request
\* without them, so that NUL-terminated option strings after a valid
\* request are accepted and ignored.
C26_TailIgnored ==
    (fn = "parseRequestPacket" /\ HasTail(input)) =>
        /\ output = IF input[Len(input)] # NUL
                    THEN [pkt |-> NoPacket, err |-> Err("errInvalidRequestPacket")]
                    ELSE parseRequestPacket(SubSeq(input, 1, ModeEnd(input)))
        /\ (WellFormedRequest(SubSeq(input, 1, ModeEnd(input))) /\ input[Len(input)] = NUL)
              => output.err = nil

\* A read request followed by an option and its value, each ended by a NUL,
\* has been accepted as the request without them.
C26_Witness ==
    /\ fn = "parseRequestPacket"
    /\ input = <<0, 1, 97, 0>> \o ModeOctet \o <<0, 120, 0, 49, 0>>
    /\ output = [pkt |-> [Opcode |-> 1, Filename |-> <<97>>, Mode |-> ModeOctet], err |-> nil]

(***************************************************************************)
(* C17. ParseAck.                                                          *)
(***************************************************************************)
\* C17: parseACKPacket returns an ack or an error, never both or neither:
\* invalid-ACK below 4 bytes; the ack with the big-endian block number for 4
\* bytes with opcode 4; invalid-ERROR for any other slice whose opcode is not
\* 5, for opcode 5 with 4 bytes and for opcode 5 without a final NUL; and
\* otherwise the ErrorPacket with the code of bytes 2..3 and the message of
\* bytes 4..len-2.
C17_ParseAck ==
    fn = "parseACKPacket" =>
        /\ output.ack <=> output.err = nil
        /\ output =
              IF Len(input) < 4
              THEN [ack |-> FALSE, Block |-> 0, err |-> Err("errInvalidACKPacket")]
              ELSE IF Len(input) = 4 /\ input[1] = 0 /\ input[2] = 4
              THEN [ack |-> TRUE, Block |-> input[3] * 256 + input[4], err |-> nil]
              ELSE IF ~(input[1] = 0 /\ input[2] = 5) \/ Len(input) = 4
                      \/ input[Len(input)] # 0
              THEN [ack |-> FALSE, Block |-> 0, err |-> Err("errInvalidERRORPacket")]
              ELSE [ack |-> FALSE, Block |-> 0,
                    err |-> [type |-> "ErrorPacket",
                             code |-> input[3] * 256 + input[4],
                             msg |-> SubSeq(input, 5, Len(input) - 1)]]

\* An ACK with a trailing byte has been refused as an invalid ERROR packet.
C17_Witness ==
    /\ fn = "parseACKPacket"
    /\ input = <<0, 4, 0, 5, 0>>
    /\ output.err = Err("errInvalidERRORPacket")

(***************************************************************************)
(* C18 - C20. NetASCII.                                                    *)
(***************************************************************************)
\* The netascii form of the byte b.
EncodedByte(b) ==
    IF b = LF THEN <<CR, LF>> ELSE IF b = CR THEN <<CR, NUL>> ELSE <<b>>

\* The netascii form of p, byte by byte from the right.
RECURSIVE Encoded(_)
Encoded(p) ==
    IF p = <<>> THEN <<>>
    ELSE Encoded(SubSeq(p, 1, Len(p) - 1)) \o EncodedByte(p[Len(p)])

Count(p, b) == Cardinality({i \in 1..Len(p) : p[i] = b})

\* C18: decoding the encoding of a slice without NUL gives the slice back,
\* with no error, for either encoder and either decoder.
C18_RoundTrip ==
    (fn = "roundTrip" /\ Count(input, NUL) = 0) =>
        output = [out |-> input, err |-> nil]

\* A slice with CR LF in it and a CR at its end has come back.
C18_Witness ==
    /\ fn = "roundTrip"
    /\ input = <<97, CR, LF, LF, CR>>
    /\ output.out = input

\* C19: toNetASCII puts a CR before each LF and a NUL after each CR of its
\* input and changes nothing else, so that the output is longer than the
\* input by the number of its CRs and LFs; netASCIIResponseWriter.Write hands
\* the same bytes to the writer it wraps.
C19_Encode ==
    fn \in {"toNetASCII", "netASCIIResponseWriter.Write"} =>
        /\ output = Encoded(input)
        /\ Len(output) = Len(input) + Count(input, CR) + Count(input, LF)
        /\ Len(output) >= Len(input)

\* The writer has encoded a slice in which an LF follows a CR.
C19_Witness ==
    /\ fn = "netASCIIResponseWriter.Write"
    /\ input = <<97, CR, LF, 97>>
    /\ output = <<97, CR, NUL, CR, LF, 97>>

\* The scan of fromNetASCII from p[i] on meets a CR followed by a byte that
\* is neither LF nor NUL.
RECURSIVE MalformedFrom(_, _)
MalformedFrom(p, i) ==
    IF i >= Len(p) THEN FALSE
    ELSE IF p[i] # CR THEN MalformedFrom(p, i + 1)
    ELSE IF p[i + 1] \in {LF, NUL} THEN MalformedFrom(p, i + 2)
    ELSE TRUE

\* C20: for an input in which the scan meets a CR followed by a byte that is
\* neither LF nor NUL, the decoder returns an error and no output.
C20_DecodeRejects ==
    (fn = "fromNetASCII" /\ MalformedFrom(input, 1)) =>
        /\ output.err # nil
        /\ output.out = <<>>

\* The units of the netascii form from p[i] on, each mapped: CR LF to LF,
\* CR NUL to CR, a CR that is the last byte and any other byte to itself.
RECURSIVE DecodedUnits(_, _)
DecodedUnits(p, i) ==
    IF i > Len(p) THEN <<>>
    ELSE IF p[i] = CR /\ i < Len(p)
         THEN <<IF p[i + 1] = LF THEN LF ELSE CR>> \o DecodedUnits(p, i + 2)
         ELSE <<p[i]>> \o DecodedUnits(p, i + 1)

\* C21: for an input in which every CR is followed by LF or NUL or is the
\* last byte, the decoder returns no error and the concatenation of the
\* mapped units: bytes other than CR unchanged, LF for CR LF, CR for CR NUL,
\* and a CR for a CR at the end; the input CR alone gives CR.
C21_DecodeMapping ==
    (fn = "fromNetASCII" /\ ~MalformedFrom(input, 1)) =>
        /\ output.err = nil
        /\ output.out = DecodedUnits(input, 1)
        /\ input = <<CR>> => output.out = <<CR>>
        /\ Count(input, CR) = 0 => output.out = input

\* CR LF, CR NUL and a CR at the end have been decoded to LF, CR, CR.
C21_Witness ==
    /\ fn = "fromNetASCII"
    /\ input = <<CR, LF, CR, NUL, CR>>
    /\ output = [out |-> <<LF, CR, CR>>, err |-> nil]

(***************************************************************************)
(* The properties of the dispatcher.                                       *)
(***************************************************************************)
\* The datagram the conn was made of is one parseRequest rejects.
Rejected(r) == parseRequestPacket(r.dgram).err # nil

\* Some conn.serve goroutine takes the step.
ConnSteps(c) == c \in DOMAIN conns /\ conns'[c] # conns[c]

\* C12: a datagram that parseRequest rejects is dropped silently: its conn
\* never holds a Request, never opens an endpoint, never has the handler
\* invoked and never sends a datagram, and the step that drops it leaves
\* the dispatch loop as it was, so that the loop goes on receiving.
C12_InvalidDropped ==
    [][ \A c \in DOMAIN conns' :
            Rejected(conns'[c]) =>
                /\ conns'[c].req = NoRequest
                /\ conns'[c].port = 0
                /\ conns'[c].opened = 0
                /\ conns'[c].handlerCalls = 0
                /\ conns'[c].sent = 0
                /\ conns'[c].pc \in {"serve", "done"}
                /\ ConnSteps(c) => (loop' = loop /\ sbuf' = sbuf /\ conns'[c].pc = "done") ]_vars

\* An invalid datagram has been dropped and the datagram received after it
\* has reached the handler.
C12_Witness ==
    /\ Len(conns) = 2
    /\ Rejected(conns[1])
    /\ conns[1].pc = "done"
    /\ conns[2].handlerCalls = 1
    /\ loop.pc = "ReadFrom"

\* The datagram the conn was made of is a valid request.
Valid(r) == ~Rejected(r)

\* C13 as stated: every valid request leads to exactly one handler
\* invocation with exactly one opened engine.
C13_OneHandlerPerRequest ==
    \A c \in DOMAIN conns :
        (Valid(conns[c]) /\ conns[c].pc = "done") =>
            (conns[c].handlerCalls = 1 /\ conns[c].opened = 1)

\* The dispatch loop can take its next step.
LoopCanReceive == ENABLED (\E d \in ServerDatagrams, a \in RemoteAddrs : ServeReadFrom(d, a))
LoopCanGo == ENABLED ServeGo

\* C13: every datagram the loop received has its own conn.serve goroutine
\* before the next receive; a valid request whose endpoint could be opened
\* has exactly one handler invocation with exactly one engine, fresh when
\* the handler is invoked, and a valid request whose endpoint could not be
\* opened has none; no request has more; and whatever the sessions do, the
\* loop can receive the next datagram and start its goroutine.
C13_Dispatch ==
    /\ loop.pc \in {"ReadFrom", "returned"} => Len(conns) = loop.received
    /\ loop.pc = "go" => (Len(conns) = loop.received - 1 /\ LoopCanGo)
    /\ (loop.pc = "ReadFrom" /\ loop.received < MaxConns) => LoopCanReceive
    /\ \A c \in DOMAIN conns :
        /\ conns[c].handlerCalls <= 1
        /\ conns[c].opened <= 1
        /\ conns[c].handlerCalls = 1 => (Valid(conns[c]) /\ conns[c].opened = 1)
        /\ conns[c].pc = "ServeTFTP" =>
               (conns[c].opened = 1 /\ conns[c].handlerCalls = 0
                /\ conns[c].block = 0 /\ conns[c].sent = 0)
        /\ conns[c].pc \in {"io.Copy", "Flush", "Close"} \cup AwaitingAck =>
               conns[c].handlerCalls = 1
        /\ (Valid(conns[c]) /\ conns[c].pc = "done") =>
               conns[c].handlerCalls = conns[c].opened

\* A request was received and dispatched while an earlier session was
\* blocked in a read that has timed out, and its handler was invoked while
\* that session is still blocked.
C13_Witness ==
    /\ Len(conns) = 2
    /\ conns[1].pc \in AwaitingAck
    /\ conns[1].timeouts > 0
    /\ conns[2].blockedAtStart = 1
    /\ conns[2].handlerCalls = 1
    /\ conns[2].opened = 1

\* C14: sessions share no mutable state.  A step changes the record of at
\* most one conn, and the dispatch loop's steps change none; the bytes a
\* conn parses are, at every moment, the datagram it was made of, whatever
\* the loop has since received into its buffer, and the Request it holds is
\* the one parsed from that datagram; the endpoints open at the same time
\* are different sockets.
C14_Isolation ==
    [][ /\ \A c, d \in DOMAIN conns : (ConnSteps(c) /\ d # c) => conns'[d] = conns[d]
        /\ (loop' # loop \/ sbuf' # sbuf) => \A c \in DOMAIN conns : conns'[c] = conns[c]
        /\ \A c \in DOMAIN conns : ConnBuf(c)' = ConnBuf(c)
        /\ \A c \in DOMAIN conns' :
            /\ ConnBuf(c)' = conns'[c].dgram
            /\ conns'[c].req # NoRequest =>
                   conns'[c].req = parseRequest(conns'[c].dgram, conns'[c].remoteAddr).req
        /\ \A c, d \in DOMAIN conns' :
               (c # d /\ conns'[c].opened > conns'[c].closes
                      /\ conns'[d].opened > conns'[d].closes) =>
                   conns'[c].port # conns'[d].port ]_vars

\* Two sessions made of different datagrams, a netascii request and then
\* an octet one that has overwritten the loop's buffer: each parsed its own
\* request, holds its own endpoint and is blocked at its own block.
C14_Witness ==
    /\ Len(conns) = 2
    /\ conns[1].dgram # conns[2].dgram
    /\ SubSeq(sbuf, 1, conns[1].n) # conns[1].dgram
    /\ conns[1].pc \in AwaitingAck
    /\ conns[2].pc \in AwaitingAck
    /\ conns[1].req.Mode = ModeNetASCII
    /\ conns[2].req.Mode = ModeOctet
    /\ conns[1].block = 1 /\ conns[2].block = 2

\* C15: the endpoint of a session that has ended was closed, once.
C15_EndpointClosed ==
    \A c \in DOMAIN conns :
        /\ conns[c].closes <= 1
        /\ (conns[c].pc = "done" /\ conns[c].opened > 0) => conns[c].closes = 1
====
